---------------------------- MODULE Spec2Model ----------------------------
(***************************************************************************)
(* hyperworker installer (src/install.js).                                 *)
(*                                                                         *)
(* Two specifications live in this module.                                 *)
(*   MergeSpec : reverseMerge as a function over a JavaScript heap; inputs *)
(*               are drawn from a bounded set of JSON texts, parsed, and   *)
(*               merged once and then a second time with the same source.  *)
(*   Spec      : one run of main(): source resolution, stack selection,    *)
(*               skill installation, the two settings merges, .gitignore   *)
(*               and the summary, over a small file system.                *)
(*                                                                         *)
(* JavaScript values.  A value held in a variable is a primitive or a      *)
(* reference into the heap; objects and arrays are heap cells.  Two        *)
(* references are === exactly when they are the same address, which is     *)
(* what Array.prototype.includes compares.  A JSON text is modelled by its *)
(* syntax tree (whitespace is not modelled); JSON.parse allocates fresh    *)
(* cells for it and JSON.stringify reads cells back into a tree.           *)
(***************************************************************************)
EXTENDS Naturals, Sequences, FiniteSets, TLC

\* ------------------------------------------------------------------------
\* Bounds of the model
\* ------------------------------------------------------------------------

\* longest array among the generated merge inputs
MaxArrLen == 2
\* deepest nesting of mappings among the generated merge inputs
MaxDepth == 2

\* ------------------------------------------------------------------------
\* Values
\* ------------------------------------------------------------------------

Undef == [t |-> "undefined"]
Null == [t |-> "null"]
Bool(b) == [t |-> "boolean", b |-> b]
Num(n) == [t |-> "number", n |-> n]
\* a string is the sequence of its characters
Str(cs) == [t |-> "string", chars |-> cs]
\* a reference to heap cell a
Ref(a) == [t |-> "ref", a |-> a]

\* heap cells; the same two shapes, with trees in place of values, are the
\* syntax trees of JSON texts
Arr(es) == [t |-> "array", elems |-> es]
Obj(ks, vs) == [t |-> "object", keys |-> ks, vals |-> vs]

EmptyObj == Obj(<<>>, <<>>)

IsRef(v) == v.t = "ref"
IsArray(h, v) == IsRef(v) /\ h[v.a].t = "array"
isPlainObject(h, v) == IsRef(v) /\ h[v.a].t = "object"
\* x == null
IsNullish(v) == v.t \in {"undefined", "null"}

\* position of key k in the key sequence ks, 0 when absent
IndexOf(ks, k) ==
  IF \E i \in 1..Len(ks) : ks[i] = k
  THEN CHOOSE i \in 1..Len(ks) : ks[i] = k
  ELSE 0

\* array index keys "0", "1", ... that the model can meet
IndexKeys == {ToString(i) : i \in 0..(2 * MaxArrLen + 4)}
IsIndexKey(k) == k \in IndexKeys
KeyIndex(k) == CHOOSE i \in 0..(2 * MaxArrLen + 4) : ToString(i) = k

\* Object.keys(v)
ObjectKeys(h, v) ==
  IF isPlainObject(h, v) THEN h[v.a].keys
  ELSE IF IsArray(h, v) THEN [i \in 1..Len(h[v.a].elems) |-> ToString(i - 1)]
  ELSE IF v.t = "string" THEN [i \in 1..Len(v.chars) |-> ToString(i - 1)]
  ELSE <<>>

\* v[key]
Get(h, v, key) ==
  IF isPlainObject(h, v) THEN
    LET i == IndexOf(h[v.a].keys, key)
    IN IF i = 0 THEN Undef ELSE h[v.a].vals[i]
  ELSE IF IsArray(h, v) THEN
    IF IsIndexKey(key) /\ KeyIndex(key) < Len(h[v.a].elems)
    THEN h[v.a].elems[KeyIndex(key) + 1] ELSE Undef
  ELSE IF v.t = "string" THEN
    IF IsIndexKey(key) /\ KeyIndex(key) < Len(v.chars)
    THEN Str(<<v.chars[KeyIndex(key) + 1]>>) ELSE Undef
  ELSE Undef

\* where a new own property key goes in the property order of an object:
\* integer keys ascending first, then the other keys in insertion order
InsertPos(ks, key) ==
  IF IsIndexKey(key)
  THEN Cardinality({i \in 1..Len(ks) : IsIndexKey(ks[i]) /\ KeyIndex(ks[i]) < KeyIndex(key)})
  ELSE Len(ks)

InsertAt(s, n, x) == SubSeq(s, 1, n) \o <<x>> \o SubSeq(s, n + 1, Len(s))

\* obj[key] = val, on the object cell at address a
SetProp(h, a, key, val) ==
  LET c == h[a]
      i == IndexOf(c.keys, key)
      n == InsertPos(c.keys, key)
  IN IF i # 0
     THEN [h EXCEPT ![a] = Obj(c.keys, [c.vals EXCEPT ![i] = val])]
     ELSE [h EXCEPT ![a] = Obj(InsertAt(c.keys, n, key), InsertAt(c.vals, n, val))]

\* a new cell; the result is the new heap and the reference
Alloc(h, cell) == [h |-> Append(h, cell), r |-> Ref(Len(h) + 1)]

\* ------------------------------------------------------------------------
\* JSON.stringify / JSON.parse
\* ------------------------------------------------------------------------

RECURSIVE Stringify(_, _)
\* the tree of JSON.stringify(v): a property whose value is undefined is
\* left out of an object, an undefined array element is written null
Stringify(h, v) ==
  IF ~IsRef(v) THEN v
  ELSE IF h[v.a].t = "array" THEN
    LET es == h[v.a].elems
    IN Arr([i \in 1..Len(es) |->
              IF es[i] = Undef THEN Null ELSE Stringify(h, es[i])])
  ELSE
    LET c == h[v.a]
        kept == SelectSeq([i \in 1..Len(c.keys) |-> i], LAMBDA i : c.vals[i] # Undef)
    IN Obj([j \in 1..Len(kept) |-> c.keys[kept[j]]],
           [j \in 1..Len(kept) |-> Stringify(h, c.vals[kept[j]])])

RECURSIVE Parse(_, _), ParseAll(_, _)
\* JSON.parse of the text with tree j: every array and object of the text
\* becomes a fresh cell
Parse(h, j) ==
  IF j.t = "array" THEN
    LET p == ParseAll(h, j.elems)
    IN Alloc(p.h, Arr(p.rs))
  ELSE IF j.t = "object" THEN
    LET p == ParseAll(h, j.vals)
    IN Alloc(p.h, Obj(j.keys, p.rs))
  ELSE [h |-> h, r |-> j]

ParseAll(h, js) ==
  IF js = <<>> THEN [h |-> h, rs |-> <<>>]
  ELSE LET p == Parse(h, Head(js))
           q == ParseAll(p.h, Tail(js))
       IN [h |-> q.h, rs |-> <<p.r>> \o q.rs]

\* JSON.parse(JSON.stringify(v))
DeepCopy(h, v) == Parse(h, Stringify(h, v))

\* ------------------------------------------------------------------------
\* reverseMerge
\* ------------------------------------------------------------------------

\* es.includes(v): SameValueZero, so primitives by value and objects and
\* arrays by reference
Includes(es, v) == \E i \in 1..Len(es) : es[i] = v

\* new Set([...Object.keys(target), ...Object.keys(source)]) in iteration
\* order: first occurrences only
AllKeys(h, target, source) ==
  LET ks == ObjectKeys(h, target) \o ObjectKeys(h, source)
      firsts == SelectSeq([i \in 1..Len(ks) |-> i],
                          LAMBDA i : \A j \in 1..(i - 1) : ks[j] # ks[i])
  IN [j \in 1..Len(firsts) |-> ks[firsts[j]]]

\* not a model of the code: result aliases the target object
NewResultInPlace(h, target) ==
  IF isPlainObject(h, target) THEN [h |-> h, r |-> target] ELSE Alloc(h, EmptyObj)

\* const result = {}
NewResult(h, target) == Alloc(h, EmptyObj)

\* [...tVal, ...sVal.filter((v) => !tVal.includes(v))]
UnionArrays(h, tVal, sVal) ==
  LET tE == h[tVal.a].elems
      sE == h[sVal.a].elems
  IN Alloc(h, Arr(tE \o SelectSeq(sE, LAMBDA v : ~Includes(tE, v))))

\* not a model of the code: keeps the target value only when it is truthy
KeepsTargetTruthy(tVal) ==
  /\ ~IsNullish(tVal)
  /\ tVal # Bool(FALSE)
  /\ tVal # Num(0)
  /\ tVal # Str(<<>>)

\* not a model of the code: keeps a null target value
KeepsTargetNull(tVal) == tVal # Undef

\* tVal !== undefined && tVal !== null
KeepsTarget(tVal) == tVal # Undef /\ tVal # Null

\* isPlainObject(sVal) || Array.isArray(sVal) ? JSON.parse(JSON.stringify(sVal)) : sVal
TakeSource(h, sVal) ==
  IF isPlainObject(h, sVal) \/ IsArray(h, sVal)
  THEN DeepCopy(h, sVal)
  ELSE [h |-> h, r |-> sVal]

\* not a model of the code: two mappings at a key are not merged, the
\* target's mapping is kept
MergeObjectsShallow(h, tVal, sVal) == [h |-> h, r |-> tVal]

RECURSIVE reverseMerge(_, _, _)

\* result[key] = reverseMerge(tVal, sVal)
MergeObjects(h, tVal, sVal) == reverseMerge(h, tVal, sVal)

\* one turn of the loop over allKeys: the value stored at result[key]
MergeKey(h, target, source, result, key) ==
  LET tVal == Get(h, target, key)
      sVal == Get(h, source, key)
      v == IF IsArray(h, tVal) /\ IsArray(h, sVal) THEN UnionArrays(h, tVal, sVal)
           ELSE IF isPlainObject(h, tVal) /\ isPlainObject(h, sVal)
                THEN MergeObjects(h, tVal, sVal)
           ELSE IF KeepsTarget(tVal) THEN [h |-> h, r |-> tVal]
           ELSE TakeSource(h, sVal)
  IN SetProp(v.h, result.a, key, v.r)

RECURSIVE MergeKeys(_, _, _, _, _)
\* for (const key of allKeys) { ... }
MergeKeys(h, target, source, result, keys) ==
  IF keys = <<>> THEN h
  ELSE MergeKeys(MergeKey(h, target, source, result, Head(keys)),
                 target, source, result, Tail(keys))

\* reverseMerge(target, source): the heap after the call and the value
\* returned
reverseMerge(h, target, source) ==
  IF IsNullish(target) /\ IsNullish(source) THEN Alloc(h, EmptyObj)
  ELSE IF IsNullish(target) THEN DeepCopy(h, source)
  ELSE IF IsNullish(source) THEN DeepCopy(h, target)
  ELSE LET res == NewResult(h, target)
       IN [h |-> MergeKeys(res.h, target, source, res.r, AllKeys(h, target, source)),
           r |-> res.r]

\* ------------------------------------------------------------------------
\* Structure of values, for comparing them
\* ------------------------------------------------------------------------

RECURSIVE View(_, _)
\* the structure reachable from v as a tree; undefined property values are
\* kept (unlike Stringify)
View(h, v) ==
  IF ~IsRef(v) THEN v
  ELSE IF h[v.a].t = "array"
    THEN Arr([i \in 1..Len(h[v.a].elems) |-> View(h, h[v.a].elems[i])])
  ELSE Obj(h[v.a].keys, [i \in 1..Len(h[v.a].vals) |-> View(h, h[v.a].vals[i])])

\* the value at key k of the object tree x, Undef when absent
Field(x, k) ==
  IF x.t = "object" /\ IndexOf(x.keys, k) # 0 THEN x.vals[IndexOf(x.keys, k)] ELSE Undef

KeySet(x) == IF x.t = "object" THEN {x.keys[i] : i \in 1..Len(x.keys)} ELSE {}

RECURSIVE DeepEqual(_, _)
\* structural equality of two trees: same type and value, arrays element by
\* element, objects key by key whatever the order of the keys
DeepEqual(x, y) ==
  IF x.t # y.t THEN FALSE
  ELSE IF x.t = "array" THEN
    /\ Len(x.elems) = Len(y.elems)
    /\ \A i \in 1..Len(x.elems) : DeepEqual(x.elems[i], y.elems[i])
  ELSE IF x.t = "object" THEN
    /\ KeySet(x) = KeySet(y)
    /\ \A k \in KeySet(x) : DeepEqual(Field(x, k), Field(y, k))
  ELSE x = y

\* reverseMerge applied to the texts t and s, as a tree
MergeOf(t, s) ==
  LET pt == Parse(<<>>, t)
      ps == Parse(pt.h, s)
      c == reverseMerge(ps.h, pt.r, ps.r)
  IN View(c.h, c.r)

\* ------------------------------------------------------------------------
\* JSON texts the model draws its inputs from
\* ------------------------------------------------------------------------

SeqsUpTo(S, n) == UNION {[1..k -> S] : k \in 0..n}

Scalars == {Null, Bool(FALSE), Num(0), Num(1), Str(<<>>)}
ElemSet == {Num(1), Num(2), EmptyObj}
Arrays == {Arr(es) : es \in SeqsUpTo(ElemSet, MaxArrLen)}
Leaves == Scalars \cup Arrays

RECURSIVE Nested(_)
\* leaves, and mappings over the key "a" nested at most d deep
Nested(d) ==
  IF d = 0 THEN Leaves
  ELSE Leaves \cup {EmptyObj} \cup {Obj(<<"a">>, <<v>>) : v \in Nested(d - 1)}

\* mappings with two keys, in both orders
TwoKeys ==
  {Obj(ks, <<v, w>>) : ks \in {<<"a", "b">>, <<"b", "a">>},
                       v \in {Null, Num(0)}, w \in {Null, Num(1), EmptyObj}}

\* the trees of the worked examples
ExUnionT == Obj(<<"a">>, <<Arr(<<Num(1), Num(2)>>)>>)
ExUnionS == Obj(<<"a">>, <<Arr(<<Num(2), Num(3)>>)>>)
ExUnionM == Obj(<<"a">>, <<Arr(<<Num(1), Num(2), Num(3)>>)>>)
ExEnvT ==
  Obj(<<"env", "extra">>,
      <<Obj(<<"X">>, <<Str(<<"u", "s", "e", "r">>)>>), Bool(TRUE)>>)
ExEnvS ==
  Obj(<<"env">>,
      <<Obj(<<"X", "Y">>, <<Str(<<"t", "e", "m", "p", "l", "a", "t", "e">>), Str(<<"2">>)>>)>>)
ExEnvM ==
  Obj(<<"env", "extra">>,
      <<Obj(<<"X", "Y">>, <<Str(<<"u", "s", "e", "r">>), Str(<<"2">>)>>), Bool(TRUE)>>)
\* a user-settings.json of a stack
ExUserS == Obj(<<"u">>, <<Num(1)>>)
ExGapS == Obj(<<"a", "b">>, <<Num(1), Obj(<<"c">>, <<Num(2)>>)>>)
Examples == {ExUnionT, ExUnionS, ExEnvT, ExEnvS, ExGapS, Str(<<"x">>)}

Trees == Nested(MaxDepth) \cup TwoKeys \cup Examples

\* ------------------------------------------------------------------------
\* State
\* ------------------------------------------------------------------------

\* reverseMerge applied to bounded inputs
VARIABLES
  tIn,       \* the JSON text target was parsed from
  sIn,       \* the JSON text source was parsed from
  heap,      \* the heap: a sequence of cells, a reference is an index
  target,    \* first argument of the first call
  source,    \* second argument of both calls
  merged,    \* reverseMerge(target, source)
  mIn,       \* the structure of merged when the first call returned
  merged2,   \* reverseMerge(merged, source)
  phase      \* "parsed", "merged", "remerged"

mergeVars == <<tIn, sIn, heap, target, source, merged, mIn, merged2, phase>>

\* one run of main()
VARIABLES
  opts,            \* the options parseArgs returned
  homeIsTarget,    \* os.homedir() is the target directory
  fs,              \* the files the run can write: the target directory and
                   \* the user settings file
  fs0,             \* fs when the run started
  tempDir,         \* the clone directory: "none", "exists", "removed"
  pc,              \* where main() is
  idx,             \* index in filesToProcess of the entry being processed
  exists,          \* per entry, `exists` as the loop found it; "unseen" before
  retries,         \* times the current question was asked again
  prompts,         \* the questions put to the terminal so far
  warned,          \* the settings files reported as 'Invalid JSON in ...'
  answer,          \* the answer just read, trimmed and lower-cased; "none" otherwise
  pending,         \* writeJsonAtomic: the call in progress, NoPending otherwise
  writes,          \* the file writes made so far, as <<step, path>>
  installed,       \* installSkills: entries installed
  skipped,         \* installSkills: entries skipped
  sourceSettings,  \* mergeSettings: the parsed source while it awaits an answer
  results,         \* what mergeSettings (twice) and updateGitignore returned
  thrown,          \* an error is propagating out of main()
  error,           \* what that error is: "io" for a failed file operation,
                   \* "TypeError"; "none" while nothing was thrown
  env,             \* what the run has found out about the source: absent
                   \* fields are facts it has not looked at
  sourceDir,       \* what resolveSource returned: "source", "bundled", "temp";
                   \* "none" before
  tmpl,            \* the two source settings files as the run read them;
                   \* Unread before
  run,             \* 1, or 2 in the second of two runs on one file system
  first,           \* in a second run, what the first run reported
  exitCode         \* "none" while running, then "0" or "1"

runVars ==
  <<opts, homeIsTarget, fs, fs0, tempDir, pc, idx, exists, retries, prompts,
    warned, answer, pending, writes, installed, skipped, sourceSettings, results,
    thrown, error, env, sourceDir, tmpl, run, first, exitCode>>

vars == <<mergeVars, runVars>>

\* ------------------------------------------------------------------------
\* The installer: files and options
\* ------------------------------------------------------------------------

\* entries of filesToProcess when the source stack has skill files
MaxFiles == 2
\* times one question is asked again after an answer that does not settle it
MaxRetries == 1

\* contents of a settings file: no file, only whitespace, text that is not
\* JSON, or the JSON text with the given tree
Absent == [k |-> "absent"]
Blank == [k |-> "blank"]
Malformed == [k |-> "malformed"]
Json(j) == [k |-> "json", tree |-> j]

\* a file that a failed write left with part of its content
Partial == [k |-> "partial"]

\* no writeJsonAtomic call is in progress
NoPending == [label |-> "none", content |-> Null, added |-> <<>>, unchanged |-> <<>>]

\* a text file as its lines; nl tells whether the last line ends in "\n"
Text(lines, nl) == [k |-> "text", lines |-> lines, nl |-> nl]

\* const SKIP_RESULT = { added: [], unchanged: [], status: 'skipped' }
SKIP_RESULT == [added |-> <<>>, unchanged |-> <<>>, status |-> "skipped"]
\* no result yet
NoResult == [added |-> <<>>, unchanged |-> <<>>, status |-> "none"]

Labels == {"project", "user"}

\* the settings file a reconciliation writes: path.join(targetDir, '.claude',
\* 'settings.json') and path.join(os.homedir(), '.claude', 'settings.json')
TargetPath(label) ==
  IF label = "user" /\ ~homeIsTarget THEN "H/.claude/settings.json"
  ELSE "T/.claude/settings.json"

SettingsPaths == {"T/.claude/settings.json", "H/.claude/settings.json"}
SettingsDirs == {"T/.claude", "H/.claude"}

\* path.dirname of a settings path
Dirname(path) == IF path = "H/.claude/settings.json" THEN "H/.claude" ELSE "T/.claude"

\* what the two target settings files can hold when the run starts
ProjectTexts == {Absent, Blank, Malformed, Json(ExEnvT)}
UserTexts == {Absent, Malformed, Json(ExUserS)}
\* what .gitignore can hold when the run starts
GitignoreTexts ==
  {Absent, Text(<<"node_modules">>, FALSE), Text(<<"/plans", "dist">>, TRUE),
   Text(<<"/plans/">>, TRUE)}

\* the directories that must exist for the files of f to exist
ImpliedDirs(f) ==
  (IF \E i \in 1..MaxFiles : f.skills[i] # "absent"
     THEN {"T/.claude", "T/.claude/skills"} ELSE {})
  \cup {Dirname(p) : p \in {q \in SettingsPaths : f.settings[q] # Absent}}

\* a source settings file the run has not read yet
Unread == [k |-> "unread"]

\* the facts about the source that a run finds out: whether the --source
\* path exists, whether the script's directory has stack directories,
\* whether git runs, whether the clone succeeds, whether the stack has skill
\* files.  A fact is "unknown" until the run looks at it.
EnvFacts == {"sourceExists", "hasStacks", "gitFound", "cloned", "skills"}
NoEnv == [f \in EnvFacts |-> "unknown"]
Know(b) == IF b THEN "yes" ELSE "no"
\* what a fact can turn out to be, given what is known of it
Outcomes(known) == IF known = "unknown" THEN BOOLEAN ELSE {known = "yes"}
\* e with the facts in probed set to what was found
Learn(e, probed, found) ==
  [f \in EnvFacts |-> IF f \in probed THEN Know(found[f]) ELSE e[f]]

\* no first run to report on
NoFirst ==
  [dryRun |-> FALSE, installed |-> <<>>, skipped |-> <<>>,
   results |-> [project |-> NoResult, user |-> NoResult,
                gitignore |-> [status |-> "none", action |-> "none"]]]

\* ------------------------------------------------------------------------
\* The installer: main()
\* ------------------------------------------------------------------------

\* a file system with the given skill files, project and user settings, .git
\* entry and .gitignore, and the directories these need
MakeFs(sk, pt, ut, git, gi) ==
  LET f == [skills |-> sk,
            settings |-> [p \in SettingsPaths |->
                            IF p = "T/.claude/settings.json" THEN pt ELSE ut],
            git |-> git,
            gitignore |-> gi,
            tmp |-> [d \in SettingsDirs |-> Absent],
            dirs |-> {}]
  IN [f EXCEPT !.dirs = ImpliedDirs(f)]

\* the file systems a run starts from, the project settings drawn from pts
\* and the user settings from uts; with the home directory as target there
\* is one settings file
StartFs(home, pts, uts) ==
  {f \in {MakeFs(sk, pt, ut, git, gi) :
            sk \in [1..MaxFiles -> {"absent", "user"}],
            pt \in (IF home THEN pts \cap {Absent, Json(ExEnvT)} ELSE pts),
            ut \in (IF home THEN {Absent} ELSE uts),
            git \in BOOLEAN,
            gi \in GitignoreTexts} :
     ~f.git => f.gitignore = Text(<<"node_modules">>, FALSE)}

\* main() is about to start
StartOfRun ==
  /\ tempDir = "none"
  /\ sourceDir = "none"
  /\ pc = "resolveSource"
  /\ idx = 0
  /\ exists = [i \in 1..MaxFiles |-> "unseen"]
  /\ retries = 0
  /\ prompts = {}
  /\ warned = {}
  /\ answer = "none"
  /\ pending = NoPending
  /\ writes = {}
  /\ installed = <<>>
  /\ skipped = <<>>
  /\ sourceSettings = Absent
  /\ results = [project |-> NoResult, user |-> NoResult,
                gitignore |-> [status |-> "none", action |-> "none"]]
  /\ thrown = FALSE
  /\ error = "none"
  /\ exitCode = "none"

RunInit ==
  /\ opts \in [dryRun : BOOLEAN, yes : BOOLEAN, stack : {"null", "typescript"},
               source : {"null", "path"}, remote : {"null", "url"}]
  \* --source takes precedence over --remote; the two are not given together
  /\ ~(opts.source # "null" /\ opts.remote # "null")
  /\ homeIsTarget \in BOOLEAN
  /\ fs \in StartFs(homeIsTarget, ProjectTexts, UserTexts)
  /\ fs0 = fs
  /\ env = NoEnv
  /\ tmpl = [label \in Labels |-> Unread]
  /\ run = 1
  /\ first = NoFirst
  /\ StartOfRun

\* process.exit(code): the process ends there; no finally block runs
ProcessExit(code) ==
  /\ pc' = "exited"
  /\ exitCode' = code

\* not a model of the code: --remote is looked at before --source
resolveSourceRemoteFirst(o, found) ==
  IF o.remote = "null" /\ o.source # "null" THEN
    [exit |-> ~found.sourceExists,
     sourceDir |-> IF found.sourceExists THEN "source" ELSE "none",
     tempDir |-> "none",
     probed |-> {"sourceExists"}]
  ELSE IF found.hasStacks /\ o.remote = "null" THEN
    [exit |-> FALSE, sourceDir |-> "bundled", tempDir |-> "none",
     probed |-> {"hasStacks"}]
  ELSE IF ~found.gitFound THEN
    [exit |-> TRUE, sourceDir |-> "none", tempDir |-> "none",
     probed |-> {"hasStacks", "gitFound"}]
  ELSE IF ~found.cloned THEN
    [exit |-> TRUE, sourceDir |-> "none", tempDir |-> "removed",
     probed |-> {"hasStacks", "gitFound", "cloned"}]
  ELSE
    [exit |-> FALSE, sourceDir |-> "temp", tempDir |-> "exists",
     probed |-> {"hasStacks", "gitFound", "cloned"}]

\* resolveSource(opts) where the facts about the source are found: whether
\* it ends in process.exit(1), the source directory and the temporary
\* directory it returns, and the facts it looked at
resolveSource(o, found) ==
  IF o.source # "null" THEN
    [exit |-> ~found.sourceExists,
     sourceDir |-> IF found.sourceExists THEN "source" ELSE "none",
     tempDir |-> "none",
     probed |-> {"sourceExists"}]
  ELSE IF found.hasStacks /\ o.remote = "null" THEN
    [exit |-> FALSE, sourceDir |-> "bundled", tempDir |-> "none",
     probed |-> {"hasStacks"}]
  ELSE IF ~found.gitFound THEN
    [exit |-> TRUE, sourceDir |-> "none", tempDir |-> "none",
     probed |-> {"hasStacks", "gitFound"}]
  ELSE IF ~found.cloned THEN
    \* mkdtempSync, then rmSync after the failed clone
    [exit |-> TRUE, sourceDir |-> "none", tempDir |-> "removed",
     probed |-> {"hasStacks", "gitFound", "cloned"}]
  ELSE
    [exit |-> FALSE, sourceDir |-> "temp", tempDir |-> "exists",
     probed |-> {"hasStacks", "gitFound", "cloned"}]

\* main(): `const { sourceDir, tempDir } = resolveSource(opts)`
ResolveSource ==
  /\ pc = "resolveSource"
  /\ \E sourceExists \in Outcomes(env.sourceExists), hasStacks \in Outcomes(env.hasStacks),
        gitFound \in Outcomes(env.gitFound), cloned \in Outcomes(env.cloned) :
       LET found == [sourceExists |-> sourceExists, hasStacks |-> hasStacks,
                     gitFound |-> gitFound, cloned |-> cloned]
           r == resolveSource(opts, found)
       IN /\ env' = Learn(env, r.probed, found)
          /\ sourceDir' = r.sourceDir
          /\ tempDir' = r.tempDir
          /\ IF r.exit THEN ProcessExit("1")
                       ELSE pc' = "selectStack" /\ UNCHANGED exitCode
  /\ UNCHANGED <<opts, homeIsTarget, tmpl, run, first, pending, writes, answer, warned, fs,
                 fs0, idx, exists, retries, prompts, installed, skipped,
                 sourceSettings, results, thrown, error>>

\* selectStack(opts, sourceDir), up to its first question
SelectStack ==
  /\ pc = "selectStack"
  /\ \E stackDirExists, anyStack \in BOOLEAN :
       IF opts.stack # "null" THEN
         IF ~stackDirExists
         THEN ProcessExit("1") /\ UNCHANGED prompts
         ELSE pc' = "installSkills" /\ UNCHANGED <<prompts, exitCode>>
       ELSE IF opts.yes THEN
         ProcessExit("1") /\ UNCHANGED prompts
       ELSE IF ~anyStack THEN
         ProcessExit("1") /\ UNCHANGED prompts
       ELSE
         /\ pc' = "askStack"
         /\ prompts' = prompts \cup {"stack"}
         /\ UNCHANGED exitCode
  /\ UNCHANGED <<opts, homeIsTarget, env, sourceDir, tmpl, run, first, pending, writes, answer, warned, fs, fs0, tempDir, idx, exists, retries,
                 installed, skipped, sourceSettings, results, thrown, error>>

\* selectStack: an answer to 'Enter selection (number): '
AnswerStack ==
  /\ pc = "askStack"
  /\ \E valid \in BOOLEAN :
       IF valid
       THEN pc' = "installSkills" /\ retries' = 0
       ELSE retries < MaxRetries /\ retries' = retries + 1 /\ UNCHANGED pc
  /\ UNCHANGED <<opts, homeIsTarget, env, sourceDir, tmpl, run, first, pending, writes, answer, warned, fs, fs0, tempDir, idx, exists, prompts,
                 installed, skipped, sourceSettings, results, thrown, error, exitCode>>

\* not a model of the code: main() reconciles the user settings first
AfterFileUserFirst(i) == IF i >= MaxFiles THEN "userSettings" ELSE "processFile"

\* where installSkills goes after entry i: the next entry, or its return
\* to main(), which calls mergeSettings for the project
AfterFile(i) == IF i >= MaxFiles THEN "projectSettings" ELSE "processFile"

\* installSkills(opts, sourceDir, stack, targetDir), up to its loop
InstallSkills ==
  /\ pc = "installSkills"
  /\ \E found \in {"noSkillsDir", "noSkillDirs", "files"} :
       /\ (found = "files") \in Outcomes(env.skills)
       /\ env' = [env EXCEPT !.skills = Know(found = "files")]
       /\ IF found # "files" THEN
            /\ pc' = "projectSettings"
            /\ UNCHANGED <<fs, idx>>
          ELSE
            /\ fs' = IF opts.dryRun THEN fs
                     ELSE [fs EXCEPT !.dirs = @ \cup {"T/.claude", "T/.claude/skills"}]
            /\ idx' = 1
            /\ pc' = "processFile"
  /\ UNCHANGED <<opts, homeIsTarget, sourceDir, tmpl, run, first, pending, writes, answer, warned, fs0, tempDir, exists, retries, prompts,
                 installed, skipped, sourceSettings, results, thrown, error, exitCode>>

\* file.dstPath of entry i, as directory and name
SkillFile(i) == <<"T/.claude/skills", <<"a.md", "b.md", "c.md", "d.md">>[i]>>

\* not a model of the code: a copied entry is not put on the installed list
CopyWithoutRecord(i, ok, partial) ==
  IF ok THEN
    /\ fs' = [fs EXCEPT !.skills[i] = "src"]
    /\ writes' = writes \cup {<<"skills", SkillFile(i)>>}
    /\ idx' = i + 1
    /\ pc' = AfterFile(i)
    /\ UNCHANGED <<installed, thrown, error>>
  ELSE
    /\ fs' = IF partial THEN [fs EXCEPT !.skills[i] = "partial"] ELSE fs
    /\ writes' = IF partial THEN writes \cup {<<"skills", SkillFile(i)>>} ELSE writes
    /\ thrown' = TRUE /\ error' = "io"
    /\ pc' = "finally"
    /\ UNCHANGED <<installed, idx>>

\* not a model of the code: a copy that fails is passed over and the loop
\* goes on with the next entry
CopySwallowsError(i, ok, partial) ==
  /\ fs' = IF ok THEN [fs EXCEPT !.skills[i] = "src"]
           ELSE IF partial THEN [fs EXCEPT !.skills[i] = "partial"] ELSE fs
  /\ writes' = IF ok \/ partial THEN writes \cup {<<"skills", SkillFile(i)>>} ELSE writes
  /\ installed' = IF ok THEN Append(installed, i) ELSE installed
  /\ idx' = i + 1
  /\ pc' = AfterFile(i)
  /\ UNCHANGED <<thrown, error>>

\* fs.cpSync(file.srcPath, file.dstPath): the copy succeeds, or it throws
\* and leaves the destination as it was or partly written
CopyFile(i, ok, partial) ==
  IF ok THEN
    /\ fs' = [fs EXCEPT !.skills[i] = "src"]
    /\ writes' = writes \cup {<<"skills", SkillFile(i)>>}
    /\ installed' = Append(installed, i)
    /\ idx' = i + 1
    /\ pc' = AfterFile(i)
    /\ UNCHANGED <<thrown, error>>
  ELSE
    /\ fs' = IF partial THEN [fs EXCEPT !.skills[i] = "partial"] ELSE fs
    /\ writes' = IF partial THEN writes \cup {<<"skills", SkillFile(i)>>} ELSE writes
    /\ thrown' = TRUE /\ error' = "io"
    /\ pc' = "finally"
    /\ UNCHANGED <<installed, idx>>

\* not a model of the code: in dry-run an absent destination is copied
DryRunCopies(i, e) ==
  IF e THEN
    /\ skipped' = Append(skipped, i)
    /\ UNCHANGED <<fs, installed>>
  ELSE
    /\ installed' = Append(installed, i)
    /\ fs' = [fs EXCEPT !.skills[i] = "src"]
    /\ UNCHANGED skipped

\* the dry-run branch of the loop: the entry is listed, nothing is copied
DryRunFile(i, e) ==
  /\ IF e THEN skipped' = Append(skipped, i) /\ UNCHANGED installed
          ELSE installed' = Append(installed, i) /\ UNCHANGED skipped
  /\ UNCHANGED fs

\* not a model of the code: --yes overwrites an existing destination
AutoOverwrite(i) ==
  /\ fs' = [fs EXCEPT !.skills[i] = "src"]
  /\ installed' = Append(installed, i)
  /\ UNCHANGED skipped

\* the --yes branch of the loop: an existing destination is skipped
AutoSkip(i) ==
  /\ skipped' = Append(skipped, i)
  /\ UNCHANGED <<fs, installed>>

\* installSkills: one entry of filesToProcess, up to its question if it
\* needs one
ProcessFile ==
  /\ pc = "processFile"
  /\ LET e == fs.skills[idx] # "absent"
     IN /\ exists' = [exists EXCEPT ![idx] = IF e THEN "yes" ELSE "no"]
        /\ IF opts.dryRun THEN
             /\ DryRunFile(idx, e)
             /\ idx' = idx + 1
             /\ pc' = AfterFile(idx)
             /\ UNCHANGED <<prompts, thrown, error, writes>>
           ELSE IF ~e THEN
             /\ \E ok, partial \in BOOLEAN : CopyFile(idx, ok, partial)
             /\ UNCHANGED <<skipped, prompts>>
           ELSE IF opts.yes THEN
             /\ AutoSkip(idx)
             /\ idx' = idx + 1
             /\ pc' = AfterFile(idx)
             /\ UNCHANGED <<prompts, thrown, error, writes>>
           ELSE
             /\ pc' = "askConflict"
             /\ prompts' = prompts \cup {"conflict"}
             /\ UNCHANGED <<fs, idx, installed, skipped, thrown, error, writes>>
  /\ UNCHANGED <<opts, homeIsTarget, env, sourceDir, tmpl, run, first, pending, answer, warned, fs0, tempDir, retries,
                 sourceSettings, results, exitCode>>

\* what can be typed at '[s]kip / [o]verwrite / [d]iff? ', trimmed and
\* lower-cased
ConflictAnswers == {"s", "skip", "o", "overwrite", "d", "diff", "", "y"}

\* installSkills: `await prompt.ask(...)` returns an answer
ReadConflict ==
  /\ pc = "askConflict"
  /\ \E a \in ConflictAnswers :
       /\ a \notin {"s", "skip", "o", "overwrite"} => retries < MaxRetries
       /\ answer' = a
  /\ pc' = "switchConflict"
  /\ UNCHANGED <<opts, homeIsTarget, env, sourceDir, tmpl, run, first, pending, writes, warned, fs, fs0, tempDir, idx, exists,
                 retries, prompts, installed, skipped, sourceSettings, results,
                 thrown, error, exitCode>>

\* case 's': case 'skip':
IsSkip(a) == a = "s" \/ a = "skip"

\* not a model of the code: an empty answer overwrites
IsOverwriteOrEmpty(a) == a = "o" \/ a = "overwrite" \/ a = ""

\* case 'o': case 'overwrite':
IsOverwrite(a) == a = "o" \/ a = "overwrite"

\* installSkills: `switch (answer)` and the end of the while loop
AnswerConflict ==
  /\ pc = "switchConflict"
  /\ IF IsSkip(answer) THEN
       /\ skipped' = Append(skipped, idx)
       /\ idx' = idx + 1
       /\ pc' = AfterFile(idx)
       /\ retries' = 0
       /\ UNCHANGED <<fs, installed, thrown, error, prompts, writes>>
     ELSE IF IsOverwrite(answer) THEN
       /\ \E ok, partial \in BOOLEAN : CopyFile(idx, ok, partial)
       /\ retries' = 0
       /\ UNCHANGED <<skipped, prompts>>
     ELSE
       \* a diff is shown, or the answer is not understood: ask again
       /\ retries' = retries + 1
       /\ pc' = "askConflict"
       /\ prompts' = prompts \cup {"conflict"}
       /\ UNCHANGED <<fs, idx, installed, skipped, thrown, error, writes>>
  /\ answer' = "none"
  /\ UNCHANGED <<opts, homeIsTarget, env, sourceDir, tmpl, run, first, pending, warned, fs0, tempDir, exists,
                 sourceSettings, results, exitCode>>

InSeq(s, x) == \E i \in 1..Len(s) : s[i] = x

\* computeKeyChanges(before, after); Object.keys(before) throws a TypeError
\* when before is null
computeKeyChanges(h, before, after) ==
  LET beforeKeys == ObjectKeys(h, before)
      afterKeys == ObjectKeys(h, after)
      changed == SelectSeq(afterKeys,
                   LAMBDA k : Stringify(h, Get(h, before, k)) # Stringify(h, Get(h, after, k)))
  IN [throws |-> IsNullish(before),
      added |-> SelectSeq(afterKeys, LAMBDA k : ~InSeq(beforeKeys, k)),
      changed |-> changed,
      unchanged |-> SelectSeq(beforeKeys, LAMBDA k : ~InSeq(changed, k))]

\* mergeSettings from `const merged = reverseMerge(...)` to the key summary:
\* raw is what the target file held (or Absent for the empty base {}), src
\* the source text
Reconcile(raw, src) ==
  LET ps == Parse(<<>>, src.tree)
      pt == IF raw.k = "json" THEN Parse(ps.h, raw.tree) ELSE Alloc(ps.h, EmptyObj)
      m == reverseMerge(pt.h, pt.r, ps.r)
      beforeJson == Stringify(m.h, pt.r)
      afterJson == Stringify(m.h, m.r)
      ch == computeKeyChanges(m.h, pt.r, m.r)
  IN [same |-> beforeJson = afterJson,
      targetKeys |-> ObjectKeys(m.h, pt.r),
      throws |-> ch.throws,
      added |-> ch.added,
      unchanged |-> ch.unchanged,
      afterJson |-> afterJson]

StepOf(label) == IF label = "project" THEN "projectSettings" ELSE "userSettings"
AskOf(label) == IF label = "project" THEN "askProject" ELSE "askUser"
\* what main() calls after the reconciliation of label
AfterMerge(label) == IF label = "project" THEN "userSettings" ELSE "gitignore"

\* mergeSettings returns r
Return(label, r) ==
  /\ results' = [results EXCEPT ![label] = r]
  /\ pc' = AfterMerge(label)

\* writeJsonAtomic(targetPath, data), its first lines: the directory is made
\* and the content serialized; ok tells whether mkdirSync succeeded.  The
\* temporary file, the rename and the catch block are the steps WriteTmp,
\* Rename and Unlink.
writeJsonAtomic(label, r, ok) ==
  IF ok THEN
    /\ fs' = [fs EXCEPT !.dirs = @ \cup {Dirname(TargetPath(label))}]
    /\ pending' = [label |-> label, content |-> r.afterJson,
                   added |-> r.added, unchanged |-> r.unchanged]
    /\ pc' = "writeTmp"
    /\ UNCHANGED <<results, thrown, error>>
  ELSE
    /\ thrown' = TRUE /\ error' = "io"
    /\ pc' = "finally"
    /\ UNCHANGED <<fs, results, pending>>

\* not a model of the code: the dry-run return is missing
WriteMergedAlways(label, r) ==
  /\ \E ok \in BOOLEAN : writeJsonAtomic(label, r, ok)
  /\ UNCHANGED writes

\* not a model of the code: the merged tree is written before the dry-run
\* check
WritesBeforeDryRunReturn(label, r) ==
  /\ Return(label, [added |-> r.added, unchanged |-> r.unchanged, status |-> "dry-run"])
  /\ fs' = [fs EXCEPT !.settings[TargetPath(label)] = Json(r.afterJson)]
  /\ UNCHANGED <<thrown, error, pending>>

\* mergeSettings: return { added, unchanged, status: 'dry-run' }
DryRunReturn(label, r) ==
  /\ Return(label, [added |-> r.added, unchanged |-> r.unchanged, status |-> "dry-run"])
  /\ UNCHANGED <<fs, thrown, error, pending>>

\* mergeSettings from `if (opts.dryRun)` to the call of writeJsonAtomic
WriteMerged(label, r) ==
  /\ IF opts.dryRun THEN
       DryRunReturn(label, r)
     ELSE
       \E ok \in BOOLEAN : writeJsonAtomic(label, r, ok)
  /\ UNCHANGED writes

\* mergeSettings from `const merged = reverseMerge(...)` on
FinishMerge(label, raw, src) ==
  LET r == Reconcile(raw, src)
  IN IF r.same THEN
       /\ Return(label, [added |-> <<>>, unchanged |-> r.targetKeys, status |-> "unchanged"])
       /\ UNCHANGED <<fs, thrown, error, pending, writes>>
     ELSE IF r.throws THEN
       /\ thrown' = TRUE /\ error' = "TypeError"
       /\ pc' = "finally"
       /\ UNCHANGED <<fs, results, pending, writes>>
     ELSE WriteMerged(label, r)

\* not a model of the code: with --yes an invalid target is overwritten
OverwriteInvalidJsonInYes(label, src) ==
  /\ warned' = warned \cup {label}
  /\ IF opts.yes THEN
       /\ FinishMerge(label, Absent, src)
       /\ UNCHANGED <<prompts, sourceSettings>>
     ELSE
       /\ pc' = AskOf(label)
       /\ prompts' = prompts \cup {label}
       /\ sourceSettings' = src
       /\ UNCHANGED <<fs, results, thrown, error, pending, writes>>

\* not a model of the code: the question is asked with --yes too
PromptsInYes(label, src) ==
  /\ warned' = warned \cup {label}
  /\ pc' = AskOf(label)
  /\ prompts' = prompts \cup {label}
  /\ sourceSettings' = src
  /\ UNCHANGED <<fs, results, thrown, error, pending, writes>>

\* promptOverwriteInvalidJson(opts, filePath, parseError) up to its question,
\* and what mergeSettings does when it returns false
promptOverwriteInvalidJson(label, src) ==
  /\ warned' = warned \cup {label}
  /\ IF opts.yes THEN
       /\ Return(label, SKIP_RESULT)
       /\ UNCHANGED <<fs, thrown, error, prompts, sourceSettings, pending, writes>>
     ELSE
       /\ pc' = AskOf(label)
       /\ prompts' = prompts \cup {label}
       /\ sourceSettings' = src
       /\ UNCHANGED <<fs, results, thrown, error, pending, writes>>

\* the source file of a reconciliation: <stack>/settings.json for the
\* project, <stack>/user-settings.json for the user
SourceTexts(label) ==
  IF label = "project" THEN {Absent, Malformed, Json(ExEnvS)}
  ELSE {Absent, Malformed, Json(ExUserS)}

\* what the source file of label turns out to hold when it is read: the
\* same as at an earlier read, if there was one
SourceRead(label) == IF tmpl[label] = Unread THEN SourceTexts(label) ELSE {tmpl[label]}

\* not a model of the code: a source that is not JSON is skipped
SkipsSourceParseError(label) ==
  /\ Return(label, SKIP_RESULT)
  /\ UNCHANGED exitCode

\* mergeSettings, the catch around JSON.parse of the source: the error is
\* printed and the process exits with code 1
SourceParseError(label) ==
  /\ ProcessExit("1")
  /\ UNCHANGED results

\* not a model of the code: a file of white space goes to JSON.parse, which
\* throws
BlankIsInvalidJson(raw) == raw \in {Malformed, Blank}

\* mergeSettings: the target exists, is not white space only, and
\* JSON.parse(raw) throws
IsInvalidJson(raw) == raw = Malformed

\* mergeSettings(opts, sourcePath, targetPath, label), up to its question if
\* it asks one, or to the call of writeJsonAtomic
MergeSettings(label) ==
  /\ pc = StepOf(label)
  /\ \E src \in SourceRead(label) :
       LET raw == fs.settings[TargetPath(label)]
       IN /\ tmpl' = [tmpl EXCEPT ![label] = src]
          /\ IF src = Absent THEN
               /\ Return(label, SKIP_RESULT)
               /\ UNCHANGED <<fs, thrown, error, prompts, warned, sourceSettings, exitCode,
                              pending, writes>>
             ELSE IF src = Malformed THEN
               /\ SourceParseError(label)
               /\ UNCHANGED <<fs, thrown, error, prompts, warned, sourceSettings,
                              pending, writes>>
             ELSE IF IsInvalidJson(raw) THEN
               /\ promptOverwriteInvalidJson(label, src)
               /\ UNCHANGED exitCode
             ELSE
               \* a missing or blank target is the empty base {}
               /\ FinishMerge(label, IF raw = Blank THEN Absent ELSE raw, src)
               /\ UNCHANGED <<prompts, warned, sourceSettings, exitCode>>
  /\ UNCHANGED <<opts, homeIsTarget, env, sourceDir, run, first, answer, fs0, tempDir, idx,
                 exists, retries, installed, skipped>>

\* a settings path as directory and name
SettingsFile(targetPath) == <<Dirname(targetPath), "settings.json">>

\* path.join(dir, `.settings.json.${process.pid}.tmp`)
TmpPath(targetPath) == <<Dirname(targetPath), ".settings.json.tmp">>



\* not a model of the code: the content is written straight to the target
WriteInPlace ==
  /\ pc = "writeTmp"
  /\ LET path == TargetPath(pending.label)
     IN \E out \in {"written", "nothing", "partial"} :
          /\ fs' = [fs EXCEPT !.settings[path] =
                      IF out = "written" THEN Json(pending.content)
                      ELSE IF out = "partial" THEN Partial ELSE @]
          /\ writes' = IF out = "nothing" THEN writes
                       ELSE writes \cup {<<pending.label, SettingsFile(path)>>}
          /\ pc' = IF out = "written" THEN "rename" ELSE "unlink"
  /\ UNCHANGED <<opts, homeIsTarget, env, sourceDir, tmpl, run, first, answer, warned, pending, fs0, tempDir, idx,
                 exists, retries, prompts, installed, skipped, sourceSettings,
                 results, thrown, error, exitCode>>

\* writeJsonAtomic: fs.writeFileSync(tmpPath, content, 'utf8') writes the
\* whole content, or throws having made no file or part of one
WriteTmp ==
  /\ pc = "writeTmp"
  /\ LET dir == Dirname(TargetPath(pending.label))
     IN \E out \in {"written", "nothing", "partial"} :
          /\ fs' = [fs EXCEPT !.tmp[dir] =
                      IF out = "written" THEN Json(pending.content)
                      ELSE IF out = "partial" THEN Partial ELSE @]
          /\ writes' = IF out = "nothing" THEN writes
                       ELSE writes \cup {<<pending.label, TmpPath(TargetPath(pending.label))>>}
          /\ pc' = IF out = "written" THEN "rename" ELSE "unlink"
  /\ UNCHANGED <<opts, homeIsTarget, env, sourceDir, tmpl, run, first, answer, warned, pending, fs0, tempDir, idx,
                 exists, retries, prompts, installed, skipped, sourceSettings,
                 results, thrown, error, exitCode>>

\* writeJsonAtomic: fs.renameSync(tmpPath, targetPath) puts the temporary
\* file in the place of the target in one step, or throws and moves nothing;
\* after it mergeSettings returns status 'updated'
Rename ==
  /\ pc = "rename"
  /\ LET path == TargetPath(pending.label)
         dir == Dirname(path)
     IN \E ok \in BOOLEAN :
          IF ok THEN
            /\ fs' = [fs EXCEPT !.settings[path] = fs.tmp[dir], !.tmp[dir] = Absent]
            /\ writes' = writes \cup {<<pending.label, SettingsFile(path)>>}
            /\ Return(pending.label, [added |-> pending.added,
                                      unchanged |-> pending.unchanged,
                                      status |-> "updated"])
            /\ pending' = NoPending
          ELSE
            /\ pc' = "unlink"
            /\ UNCHANGED <<fs, writes, results, pending>>
  /\ UNCHANGED <<opts, homeIsTarget, env, sourceDir, tmpl, run, first, answer, warned, fs0, tempDir, idx, exists,
                 retries, prompts, installed, skipped, sourceSettings, thrown, error,
                 exitCode>>

\* writeJsonAtomic, the catch block: the temporary file is unlinked (an
\* unlink of a file that was never made throws, and that is ignored), then
\* the error is thrown again; nothing between there and main() catches it
Unlink ==
  /\ pc = "unlink"
  /\ fs' = [fs EXCEPT !.tmp[Dirname(TargetPath(pending.label))] = Absent]
  /\ pending' = NoPending
  /\ thrown' = TRUE /\ error' = "io"
  /\ pc' = "finally"
  /\ UNCHANGED <<opts, homeIsTarget, env, sourceDir, tmpl, run, first, answer, warned, writes, fs0, tempDir, idx,
                 exists, retries, prompts, installed, skipped, sourceSettings,
                 results, exitCode>>

\* what can be typed at 'Overwrite with hyperworker defaults? (y/N): ',
\* trimmed and lower-cased
OverwriteAnswers == {"y", "yes", "n", "", "o"}

SwitchOf(label) == IF label = "project" THEN "switchProject" ELSE "switchUser"

\* promptOverwriteInvalidJson: `await ask(...)` returns an answer
ReadOverwrite(label) ==
  /\ pc = AskOf(label)
  /\ answer' \in OverwriteAnswers
  /\ pc' = SwitchOf(label)
  /\ UNCHANGED <<opts, homeIsTarget, env, sourceDir, tmpl, run, first, pending, writes, warned, fs, fs0, tempDir, idx, exists,
                 retries, prompts, installed, skipped, sourceSettings, results,
                 thrown, error, exitCode>>

\* not a model of the code: any answer but n lets the merge go on
OverwriteUnlessNo(a) == a # "n"

\* promptOverwriteInvalidJson: answer === 'y' || answer === 'yes'
ShouldOverwrite(a) == a = "y" \/ a = "yes"

\* promptOverwriteInvalidJson from the answer to its return, and the rest of
\* mergeSettings
AnswerOverwrite(label) ==
  /\ pc = SwitchOf(label)
  /\ IF ShouldOverwrite(answer) THEN
       FinishMerge(label, Absent, sourceSettings)
     ELSE
       /\ Return(label, SKIP_RESULT)
       /\ UNCHANGED <<fs, thrown, error, pending, writes>>
  /\ sourceSettings' = Absent
  /\ answer' = "none"
  /\ UNCHANGED <<opts, homeIsTarget, env, sourceDir, tmpl, run, first, warned, fs0, tempDir, idx, exists, retries,
                 prompts, installed, skipped, exitCode>>

\* existingContent.split('\n')
SplitLines(text) ==
  IF text.nl THEN Append(text.lines, "")
  ELSE IF text.lines = <<>> THEN <<"">>
  ELSE text.lines

\* updateGitignore: the content it writes: the existing content, a "\n" if
\* that does not end in one, then '/plans\n'
NewContent(existingContent) ==
  IF existingContent # Absent
  THEN Text(Append(existingContent.lines, "/plans"), TRUE)
  ELSE Text(<<"/plans">>, TRUE)

\* not a model of the code: any line that starts with /plans counts
HasPlansPrefixLine(existingContent) ==
  \E i \in 1..Len(existingContent.lines) :
    existingContent.lines[i] \in {"/plans", "/plans/"}

\* existingContent.split('\n').some((line) => line === entry)
HasEntryLine(existingContent) == InSeq(SplitLines(existingContent), "/plans")

\* updateGitignore(opts, targetDir) on the file system f: the file system it
\* leaves, what it returns and whether it throws; out is what
\* fs.writeFileSync does when it is called: it writes the whole content, or
\* throws having changed nothing or having left part of the content
updateGitignore(f, dryRun, out) ==
  LET existingContent == f.gitignore
      action == IF existingContent # Absent THEN "appended" ELSE "created"
      back(g, r, t, w) == [fs |-> g, result |-> r, throws |-> t, wrote |-> w]
  IN IF ~f.git THEN
       back(f, [status |-> "skipped", action |-> "none"], FALSE, FALSE)
     ELSE IF existingContent # Absent /\ HasEntryLine(existingContent) THEN
       back(f, [status |-> "already-present", action |-> "none"], FALSE, FALSE)
     ELSE IF dryRun THEN
       back(f, [status |-> "dry-run",
                action |-> IF action = "appended" THEN "would append" ELSE "would create"],
            FALSE, FALSE)
     ELSE IF out = "written" THEN
       back([f EXCEPT !.gitignore = NewContent(existingContent)],
            [status |-> IF action = "appended" THEN "updated" ELSE "created",
             action |-> action],
            FALSE, TRUE)
     ELSE
       back(IF out = "partial" THEN [f EXCEPT !.gitignore = Partial] ELSE f,
            [status |-> "none", action |-> "none"], TRUE, out = "partial")

\* .gitignore of the target directory, as directory and name
GitignoreFile == <<"T", ".gitignore">>

\* main(): `await updateGitignore(opts, targetDir)`
UpdateGitignore ==
  /\ pc = "gitignore"
  /\ \E out \in {"written", "nothing", "partial"} :
       LET r == updateGitignore(fs, opts.dryRun, out)
       IN /\ fs' = r.fs
          /\ writes' = IF r.wrote THEN writes \cup {<<"gitignore", GitignoreFile>>} ELSE writes
          /\ IF r.throws
             THEN thrown' = TRUE /\ error' = "io" /\ pc' = "finally" /\ UNCHANGED results
             ELSE /\ results' = [results EXCEPT !.gitignore = r.result]
                  /\ pc' = "summary"
                  /\ UNCHANGED <<thrown, error>>
  /\ UNCHANGED <<opts, homeIsTarget, env, sourceDir, tmpl, run, first, pending, answer, warned, fs0, tempDir, idx,
                 exists, retries, prompts, installed, skipped, sourceSettings,
                 exitCode>>

\* printSummary(opts, results) and 'Installation complete.'
PrintSummary ==
  /\ pc = "summary"
  /\ pc' = "finally"
  /\ UNCHANGED <<opts, homeIsTarget, env, sourceDir, tmpl, run, first, pending, writes, answer, warned, fs, fs0, tempDir, idx, exists, retries,
                 prompts, installed, skipped, sourceSettings, results, thrown, error,
                 exitCode>>

\* the finally block of main(), then the process.exit of the last lines: 0
\* when main() resolved, 1 when it rejected
Finally ==
  /\ pc = "finally"
  /\ tempDir' = IF tempDir = "exists" THEN "removed" ELSE tempDir
  /\ pc' = "exited"
  /\ exitCode' = IF thrown THEN "1" ELSE "0"
  /\ UNCHANGED <<opts, homeIsTarget, env, sourceDir, tmpl, run, first, pending, writes, answer, warned, fs, fs0, idx, exists, retries, prompts,
                 installed, skipped, sourceSettings, results, thrown, error>>

\* the merge harness is not running
MergeIdle ==
  /\ tIn = Null
  /\ sIn = Null
  /\ heap = <<>>
  /\ target = Null
  /\ source = Null
  /\ merged = Undef
  /\ mIn = Undef
  /\ merged2 = Undef
  /\ phase = "idle"

\* the installer is not running
RunIdle ==
  /\ opts = [dryRun |-> FALSE, yes |-> FALSE, stack |-> "null", source |-> "null",
             remote |-> "null"]
  /\ homeIsTarget = FALSE
  /\ fs = [skills |-> [i \in 1..MaxFiles |-> "absent"],
           settings |-> [p \in SettingsPaths |-> Absent],
           git |-> FALSE, gitignore |-> Absent,
           tmp |-> [d \in SettingsDirs |-> Absent], dirs |-> {}]
  /\ fs0 = fs
  /\ tempDir = "none"
  /\ pc = "idle"
  /\ idx = 0
  /\ exists = [i \in 1..MaxFiles |-> "unseen"]
  /\ retries = 0
  /\ prompts = {}
  /\ warned = {}
  /\ answer = "none"
  /\ pending = NoPending
  /\ writes = {}
  /\ installed = <<>>
  /\ skipped = <<>>
  /\ sourceSettings = Absent
  /\ results = [project |-> NoResult, user |-> NoResult,
                gitignore |-> [status |-> "none", action |-> "none"]]
  /\ thrown = FALSE
  /\ error = "none"
  /\ env = NoEnv
  /\ sourceDir = "none"
  /\ tmpl = [label \in Labels |-> Unread]
  /\ run = 1
  /\ first = NoFirst
  /\ exitCode = "none"

Init == RunInit /\ MergeIdle

Next ==
  \/ ResolveSource /\ UNCHANGED mergeVars
  \/ SelectStack /\ UNCHANGED mergeVars
  \/ AnswerStack /\ UNCHANGED mergeVars
  \/ InstallSkills /\ UNCHANGED mergeVars
  \/ ProcessFile /\ UNCHANGED mergeVars
  \/ ReadConflict /\ UNCHANGED mergeVars
  \/ AnswerConflict /\ UNCHANGED mergeVars
  \/ (\E label \in Labels : MergeSettings(label)) /\ UNCHANGED mergeVars
  \/ (\E label \in Labels : ReadOverwrite(label)) /\ UNCHANGED mergeVars
  \/ (\E label \in Labels : AnswerOverwrite(label)) /\ UNCHANGED mergeVars
  \/ WriteTmp /\ UNCHANGED mergeVars
  \/ Rename /\ UNCHANGED mergeVars
  \/ Unlink /\ UNCHANGED mergeVars
  \/ UpdateGitignore /\ UNCHANGED mergeVars
  \/ PrintSummary /\ UNCHANGED mergeVars
  \/ Finally /\ UNCHANGED mergeVars

Spec == Init /\ [][Next]_vars

\* ------------------------------------------------------------------------
\* MergeSpec: reverseMerge applied to bounded inputs
\* ------------------------------------------------------------------------

MergeInit ==
  /\ tIn \in Trees
  /\ sIn \in Trees
  /\ LET pt == Parse(<<>>, tIn)
         ps == Parse(pt.h, sIn)
     IN /\ heap = ps.h
        /\ target = pt.r
        /\ source = ps.r
  /\ merged = Undef
  /\ mIn = Undef
  /\ merged2 = Undef
  /\ phase = "parsed"
  /\ RunIdle

\* merged = reverseMerge(target, source)
CallMerge ==
  /\ phase = "parsed"
  /\ LET c == reverseMerge(heap, target, source)
     IN /\ heap' = c.h
        /\ merged' = c.r
        /\ mIn' = View(c.h, c.r)
  /\ phase' = "merged"
  /\ UNCHANGED <<tIn, sIn, target, source, merged2, runVars>>

\* merged2 = reverseMerge(merged, source)
CallMergeAgain ==
  /\ phase = "merged"
  /\ LET c == reverseMerge(heap, merged, source)
     IN /\ heap' = c.h
        /\ merged2' = c.r
  /\ phase' = "remerged"
  /\ UNCHANGED <<tIn, sIn, target, source, merged, mIn, runVars>>

MergeNext == CallMerge \/ CallMergeAgain

MergeSpec == MergeInit /\ [][MergeNext]_vars

\* ------------------------------------------------------------------------
\* ResolveSpec: resolveSource for every combination of options, --source
\* and --remote given together included
\* ------------------------------------------------------------------------

ResolveInit ==
  /\ opts \in [dryRun : BOOLEAN, yes : BOOLEAN, stack : {"null", "typescript"},
               source : {"null", "path"}, remote : {"null", "url"}]
  /\ homeIsTarget \in BOOLEAN
  /\ fs \in StartFs(homeIsTarget, {Absent}, {Absent})
  /\ fs0 = fs
  /\ env = NoEnv
  /\ tmpl = [label \in Labels |-> Unread]
  /\ run = 1
  /\ first = NoFirst
  /\ StartOfRun
  /\ MergeIdle

ResolveNext == ResolveSource /\ UNCHANGED mergeVars

ResolveSpec == ResolveInit /\ [][ResolveNext]_vars

\* ------------------------------------------------------------------------
\* SettingsSpec: the reconciliation of the project settings, for target
\* files and source mappings drawn from the bounded trees
\* ------------------------------------------------------------------------

\* what the target settings file can hold: nothing, white space, text that
\* is not JSON, or JSON of any type
SettingsTargets == {Absent, Blank, Malformed} \cup {Json(t) : t \in Trees}
\* a stack's settings.json: a mapping
SettingsSources == {Json(t) : t \in {u \in Trees : u.t = "object"}}

\* main() is about to call mergeSettings for the project: --source and
\* --stack were given, and the stack has no skill files
SettingsInit ==
  /\ opts \in [dryRun : BOOLEAN, yes : BOOLEAN, stack : {"typescript"},
               source : {"path"}, remote : {"null"}]
  /\ homeIsTarget = FALSE
  /\ \E pt \in SettingsTargets :
       fs = MakeFs([i \in 1..MaxFiles |-> "absent"], pt, Absent, FALSE,
                   Text(<<"node_modules">>, FALSE))
  /\ fs0 = fs
  /\ env = [NoEnv EXCEPT !.sourceExists = "yes", !.skills = "no"]
  /\ tmpl \in [Labels -> SettingsSources \cup {Unread}]
  /\ tmpl.project # Unread
  /\ tmpl.user = Unread
  /\ run = 1
  /\ first = NoFirst
  /\ tempDir = "none"
  /\ sourceDir = "source"
  /\ pc = "projectSettings"
  /\ idx = 0
  /\ exists = [i \in 1..MaxFiles |-> "unseen"]
  /\ retries = 0
  /\ prompts = {}
  /\ warned = {}
  /\ answer = "none"
  /\ pending = NoPending
  /\ writes = {}
  /\ installed = <<>>
  /\ skipped = <<>>
  /\ sourceSettings = Absent
  /\ results = NoFirst.results
  /\ thrown = FALSE
  /\ error = "none"
  /\ exitCode = "none"
  /\ MergeIdle

SettingsNext ==
  \/ MergeSettings("project") /\ UNCHANGED mergeVars
  \/ ReadOverwrite("project") /\ UNCHANGED mergeVars
  \/ AnswerOverwrite("project") /\ UNCHANGED mergeVars
  \/ WriteTmp /\ UNCHANGED mergeVars
  \/ Rename /\ UNCHANGED mergeVars
  \/ Unlink /\ UNCHANGED mergeVars

SettingsSpec == SettingsInit /\ [][SettingsNext]_vars

\* ------------------------------------------------------------------------
\* RerunSpec: two runs with --yes, one after the other, on one file system
\* and from one source
\* ------------------------------------------------------------------------

\* a stack's settings.json whose sequence holds a mapping
ExHooksS == Obj(<<"hooks">>, <<Arr(<<Obj(<<"m">>, <<Num(1)>>)>>)>>)

\* the source settings files of the stack the two runs install
RerunSources ==
  {t \in [Labels -> {Absent, Json(ExEnvS), Json(ExHooksS), Json(ExUserS)}] :
     /\ t.project # Json(ExUserS)
     /\ t.user \in {Absent, Json(ExUserS)}}

\* `node install.js --source <path> --stack typescript --yes`, with
\* --dry-run or without
RerunInit ==
  /\ opts \in [dryRun : BOOLEAN, yes : {TRUE}, stack : {"typescript"},
               source : {"path"}, remote : {"null"}]
  /\ homeIsTarget \in BOOLEAN
  /\ fs \in StartFs(homeIsTarget, {Absent, Malformed, Json(ExEnvT)}, UserTexts)
  /\ fs0 = fs
  /\ env = NoEnv
  /\ tmpl \in RerunSources
  /\ run = 1
  /\ first = NoFirst
  /\ StartOfRun
  /\ MergeIdle

\* the first run has ended with exit code 0; the same command, without
\* --dry-run, is started on the file system the first run left
RunAgain ==
  /\ run = 1
  /\ pc = "exited"
  /\ exitCode = "0"
  /\ run' = 2
  /\ first' = [dryRun |-> opts.dryRun, installed |-> installed, skipped |-> skipped,
               results |-> results]
  /\ opts' = [opts EXCEPT !.dryRun = FALSE]
  /\ fs0' = fs
  /\ tempDir' = "none"
  /\ sourceDir' = "none"
  /\ pc' = "resolveSource"
  /\ idx' = 0
  /\ exists' = [i \in 1..MaxFiles |-> "unseen"]
  /\ retries' = 0
  /\ prompts' = {}
  /\ warned' = {}
  /\ writes' = {}
  /\ installed' = <<>>
  /\ skipped' = <<>>
  /\ results' = NoFirst.results
  /\ exitCode' = "none"
  /\ UNCHANGED <<homeIsTarget, fs, env, tmpl, answer, pending, sourceSettings,
                 thrown, error>>

RerunNext ==
  \/ ResolveSource /\ UNCHANGED mergeVars
  \/ SelectStack /\ UNCHANGED mergeVars
  \/ InstallSkills /\ UNCHANGED mergeVars
  \/ ProcessFile /\ UNCHANGED mergeVars
  \/ (\E label \in Labels : MergeSettings(label)) /\ UNCHANGED mergeVars
  \/ WriteTmp /\ UNCHANGED mergeVars
  \/ Rename /\ UNCHANGED mergeVars
  \/ Unlink /\ UNCHANGED mergeVars
  \/ UpdateGitignore /\ UNCHANGED mergeVars
  \/ PrintSummary /\ UNCHANGED mergeVars
  \/ Finally /\ UNCHANGED mergeVars
  \/ RunAgain /\ UNCHANGED mergeVars

RerunSpec == RerunInit /\ [][RerunNext]_vars

\* ------------------------------------------------------------------------
\* `node install.js --yes --stack <name>` with any of the other options
YesInit ==
  /\ Init
  /\ opts.yes
  /\ opts.stack # "null"

\* the steps of main() after resolveSource has returned that need no
\* terminal input: each is synchronous code that runs to its end
YesSteps ==
  \/ SelectStack /\ UNCHANGED mergeVars
  \/ InstallSkills /\ UNCHANGED mergeVars
  \/ ProcessFile /\ UNCHANGED mergeVars
  \/ (\E label \in Labels : MergeSettings(label)) /\ UNCHANGED mergeVars
  \/ WriteTmp /\ UNCHANGED mergeVars
  \/ Rename /\ UNCHANGED mergeVars
  \/ Unlink /\ UNCHANGED mergeVars
  \/ UpdateGitignore /\ UNCHANGED mergeVars
  \/ PrintSummary /\ UNCHANGED mergeVars
  \/ Finally /\ UNCHANGED mergeVars

YesNext ==
  \/ ResolveSource /\ UNCHANGED mergeVars
  \/ YesSteps

\* a step that needs no input is not put off for ever; nothing is assumed
\* of resolveSource, whose clone is a subprocess the run waits for
YesSpec == YesInit /\ [][YesNext]_vars /\ WF_vars(YesSteps)

\* ------------------------------------------------------------------------
\* Properties of the installer run (Spec)
\* ------------------------------------------------------------------------

\* the run ended through the finally block of main() with no error
Completed == pc = "exited" /\ exitCode = "0" /\ results.gitignore.status # "none"

\* C1: with --dry-run, whatever the source stack, the initial target state
\* and the answers given, the run writes nothing under the target directory
\* or to the user settings file: files, directories and contents are at
\* every moment what they were when the run started.
C1_DryRunWritesNothing == opts.dryRun => fs = fs0

\* a dry run went to its end after it listed an entry it would copy, was
\* allowed to replace an invalid project settings file, would have written
\* the project settings and would have changed .gitignore
C1_Witness ==
  /\ opts.dryRun
  /\ Completed
  /\ Len(installed) > 0
  /\ "project" \in prompts
  /\ results.project.status = "dry-run"
  /\ results.gitignore.status = "dry-run"

\* C2: with --yes and no --dry-run, every manifest entry whose destination
\* existed when it was examined keeps its destination's bytes, is in the
\* skipped list and is not in the installed list.
C2_YesSkipsExisting ==
  (opts.yes /\ ~opts.dryRun) =>
    \A i \in 1..MaxFiles :
      exists[i] = "yes" =>
        /\ fs.skills[i] = fs0.skills[i]
        /\ InSeq(skipped, i)
        /\ ~InSeq(installed, i)

\* a --yes run went to its end after it skipped an existing destination
\* and copied an absent one
C2_Witness ==
  /\ opts.yes
  /\ ~opts.dryRun
  /\ Completed
  /\ exists[1] = "yes"
  /\ exists[2] = "no"
  /\ skipped = <<1>>
  /\ installed = <<2>>
  /\ fs.skills[1] = "user"
  /\ fs.skills[2] = "src"

\* C3: when a target settings file holds text that is not JSON and --yes is
\* set, its reconciliation asks no question, leaves the file's bytes as they
\* were, and the result it returns is the skipped one.
C3_InvalidTargetYesSkips ==
  \A label \in Labels :
    (opts.yes /\ fs0.settings[TargetPath(label)] = Malformed) =>
      /\ label \notin prompts
      /\ fs.settings[TargetPath(label)] = Malformed
      /\ results[label].status # "none" => results[label] = SKIP_RESULT

\* with --yes the project settings file was reported as invalid JSON and its
\* reconciliation returned skipped, in a run that wrote the user settings
C3_Witness ==
  /\ opts.yes
  /\ ~opts.dryRun
  /\ Completed
  /\ fs0.settings[TargetPath("project")] = Malformed
  /\ "project" \in warned
  /\ prompts = {}
  /\ results.project = SKIP_RESULT
  /\ fs.settings[TargetPath("project")] = Malformed
  /\ results.user.status = "updated"

\* no --yes and no --dry-run
Interactive == ~opts.yes /\ ~opts.dryRun

\* the answers that end the question about an existing destination
Resolving == {"s", "skip", "o", "overwrite"}

\* C11: in interactive mode, for an entry whose destination exists, the
\* question is put again for that same entry until the answer is skip or
\* overwrite: a diff answer or an answer that is not understood (an empty
\* one included) changes no file and resolves nothing, no later entry is
\* examined before the current one is resolved, and an existing destination
\* is replaced only by the step that handles an overwrite answer for it.
C11_PromptsUntilResolved ==
  [][Interactive =>
       /\ pc \in {"askConflict", "switchConflict"} =>
            /\ exists[idx] = "yes"
            /\ fs.skills[idx] = fs0.skills[idx]
            /\ \A j \in 1..MaxFiles : j > idx => exists[j] = "unseen"
       /\ pc = "askConflict" =>
            /\ pc' = "switchConflict"
            /\ fs' = fs /\ idx' = idx /\ exists' = exists
            /\ installed' = installed /\ skipped' = skipped
       /\ (pc = "switchConflict" /\ answer \notin Resolving) =>
            /\ pc' = "askConflict"
            /\ fs' = fs /\ idx' = idx /\ exists' = exists
            /\ installed' = installed /\ skipped' = skipped
       /\ (pc = "switchConflict" /\ answer \in {"s", "skip"}) =>
            /\ pc' \notin {"askConflict", "switchConflict"}
            /\ fs' = fs
            /\ skipped' = Append(skipped, idx) /\ installed' = installed
       /\ \A i \in 1..MaxFiles :
            (exists[i] = "yes" /\ fs'.skills[i] # fs.skills[i]) =>
              /\ pc = "switchConflict"
              /\ i = idx
              /\ answer \in {"o", "overwrite"}
  ]_vars

\* the second entry's question was put again after an answer that did not
\* resolve it, and is now answered with overwrite; the first entry was
\* skipped and is untouched
C11_Witness ==
  /\ Interactive
  /\ pc = "switchConflict"
  /\ idx = 2
  /\ retries = 1
  /\ answer = "overwrite"
  /\ skipped = <<1>>
  /\ fs.skills = fs0.skills

\* C12: when a target settings file holds text that is not JSON and --yes
\* is not set, its reconciliation goes on, with the empty mapping as the
\* target tree, only if the answer to the overwrite question is y or yes;
\* for every other answer, an empty one included, it returns the skipped
\* result and the file's bytes are unchanged.
C12_OverwriteOnlyOnYes ==
  [][\A label \in Labels :
       /\ pc \in {AskOf(label), SwitchOf(label)} =>
            /\ ~opts.yes
            /\ label \in prompts
            /\ fs.settings[TargetPath(label)] = Malformed
       /\ pc = AskOf(label) => (fs' = fs /\ results' = results)
       /\ (pc = SwitchOf(label) /\ answer \notin {"y", "yes"}) =>
            /\ results'[label] = SKIP_RESULT
            /\ fs' = fs
            /\ ~thrown'
       /\ (pc = SwitchOf(label) /\ answer \in {"y", "yes"}) =>
            /\ results'[label] # SKIP_RESULT
            /\ results'[label].status = "updated" =>
                 /\ fs'.settings[TargetPath(label)].k = "json"
                 /\ fs'.settings[TargetPath(label)].tree =
                      MergeOf(EmptyObj, sourceSettings.tree)
            /\ results'[label].status = "dry-run" => fs' = fs
  ]_vars

\* the run asked about both settings files: an empty answer left the
\* project's file as it was, and after a yes the user's file holds the merge
\* of the empty mapping with the source
C12_Witness ==
  /\ Interactive
  /\ Completed
  /\ {"project", "user"} \subseteq prompts
  /\ results.project = SKIP_RESULT
  /\ fs.settings["T/.claude/settings.json"] = Malformed
  /\ results.user.status = "updated"
  /\ fs0.settings["H/.claude/settings.json"] = Malformed
  /\ fs.settings["H/.claude/settings.json"] = Json(ExUserS)

\* the reconciliation of label is running
InCall(label) ==
  \/ pc \in {StepOf(label), AskOf(label), SwitchOf(label)}
  \/ pc \in {"writeTmp", "rename", "unlink"} /\ pending.label = label

\* C13: a reconciliation modifies its target settings path only when it
\* returns status updated: no step of it that returns skipped, unchanged or
\* dry-run, and no step of it that does not return, changes the existence or
\* the bytes of the target path; so after such a return the path holds what
\* it held before the call.
C13_TargetChangesOnlyWhenUpdated ==
  [][\A label \in Labels :
       LET path == TargetPath(label)
       IN /\ (InCall(label) /\ fs'.settings[path] # fs.settings[path]) =>
               /\ results'[label].status = "updated"
               /\ pc' = AfterMerge(label)
          /\ (InCall(label) /\ results'[label].status \in {"skipped", "unchanged", "dry-run"}) =>
               fs'.settings = fs.settings
          /\ (~homeIsTarget /\ results'[label].status \in {"skipped", "unchanged", "dry-run"}) =>
               fs'.settings[path] = fs0.settings[path]
  ]_vars

\* a run in which the project reconciliation returned updated for a file it
\* changed and the user reconciliation returned unchanged for a file that is
\* as it was
C13_Witness ==
  /\ Completed
  /\ ~opts.dryRun
  /\ ~homeIsTarget
  /\ results.project.status = "updated"
  /\ fs.settings["T/.claude/settings.json"] # fs0.settings["T/.claude/settings.json"]
  /\ results.user.status = "unchanged"
  /\ fs0.settings["H/.claude/settings.json"] = Json(ExUserS)
  /\ fs.settings["H/.claude/settings.json"] = Json(ExUserS)

\* writeJsonAtomic is running
Writing == pc \in {"writeTmp", "rename", "unlink"}

\* C14: atomic persistence.  At every point during and after the writing of
\* a merged tree the target settings path holds its complete previous
\* content (or is absent if it was) or the complete serialized merged tree,
\* never part of it; if the write of the temporary file or the rename
\* fails, the target keeps its previous content, the temporary file is
\* removed and the error propagates.
C14_AtomicPersistence ==
  [][/\ \A p \in SettingsPaths : fs'.settings[p] # Partial
     /\ pc' = "writeTmp" => fs'.settings = fs.settings
     /\ Writing =>
          LET path == TargetPath(pending.label)
          IN /\ \A p \in SettingsPaths : p # path => fs'.settings[p] = fs.settings[p]
             /\ fs'.settings[path] \in {fs.settings[path], Json(pending.content)}
             /\ pc' = "unlink" => fs'.settings = fs.settings
             /\ pc = "unlink" =>
                  /\ fs'.settings = fs.settings
                  /\ \A d \in SettingsDirs : fs'.tmp[d] = Absent
                  /\ thrown'
                  /\ pc' = "finally"
                  /\ results' = results
     /\ ~Writing' => \A d \in SettingsDirs : fs'.tmp[d] = Absent
  ]_vars

\* the project's temporary file was written, whole or in part, the write or
\* the rename failed, and now the temporary file is gone, the target holds
\* what it held and the error is on its way out of main()
C14_Witness ==
  /\ pc = "finally"
  /\ thrown
  /\ <<"project", TmpPath("T/.claude/settings.json")>> \in writes
  /\ <<"project", SettingsFile("T/.claude/settings.json")>> \notin writes
  /\ fs.tmp["T/.claude"] = Absent
  /\ fs0.settings["T/.claude/settings.json"] = Json(ExEnvT)
  /\ fs.settings["T/.claude/settings.json"] = Json(ExEnvT)

\* C15: if the source resolver made a temporary clone directory, that
\* directory is removed before the process exits, on every exit path:
\* normal completion, errors thrown by later steps, and fatal conditions
\* found by later steps.
C15_TempDirRemoved == pc = "exited" => tempDir # "exists"

\* C16: when --yes is set and no stack is given, the process fails before
\* any I/O: no temporary directory is made and no clone is run for the
\* source, nothing is written under the target, and the exit code is not 0.
C16_YesWithoutStackFailsFirst ==
  (opts.yes /\ opts.stack = "null") =>
    /\ tempDir = "none"
    /\ fs = fs0
    /\ pc = "exited" => exitCode = "1"

\* the step of main() that a state is in, as its place in the order of the
\* steps
StepNo(at, pend) ==
  CASE at = "resolveSource" -> 0
    [] at \in {"selectStack", "askStack"} -> 1
    [] at \in {"installSkills", "processFile", "askConflict", "switchConflict"} -> 2
    [] at \in {"projectSettings", "askProject", "switchProject"} -> 3
    [] at \in {"userSettings", "askUser", "switchUser"} -> 4
    [] at \in {"writeTmp", "rename", "unlink"} -> IF pend.label = "project" THEN 3 ELSE 4
    [] at = "gitignore" -> 5
    [] at = "summary" -> 6
    [] at = "finally" -> 7
    [] OTHER -> 8

\* C17: in every run the steps go in the order stack selection, file
\* installation, project-settings reconciliation, user-settings
\* reconciliation, gitignore update, summary: no step starts before the one
\* before it has ended, file installation with all its questions is over
\* before a reconciliation begins, and the project's reconciliation has
\* returned before the user's begins.
C17_FixedOrder ==
  [][LET n == StepNo(pc, pending)
         m == StepNo(pc', pending')
     IN /\ m >= n
        /\ (m # n /\ m <= 6) => m = n + 1
        /\ (fs'.skills # fs.skills \/ installed' # installed \/ skipped' # skipped
              \/ exists' # exists) => n = 2
        /\ (n = 2 /\ m = 3) =>
             /\ Len(installed') + Len(skipped') \in {0, MaxFiles}
             /\ \A i \in 1..MaxFiles : exists'[i] = "unseen" <=> idx' = 0
             /\ results' = results
             /\ fs'.settings = fs.settings
        /\ (fs'.settings # fs.settings \/ fs'.tmp # fs.tmp) => n \in {3, 4}
        /\ results'.project # results.project => (n = 3 /\ m = 4)
        /\ (n = 3 /\ m = 4) => (results'.project.status # "none" /\ results'.user.status = "none")
        /\ results'.user # results.user => (n = 4 /\ m = 5 /\ results.project.status # "none")
        /\ (fs'.gitignore # fs.gitignore \/ results'.gitignore # results.gitignore) => n = 5
        /\ m = 6 => (results'.user.status # "none" /\ results'.gitignore.status # "none")
  ]_vars

\* the summary is reached after a question about an existing skill file, two
\* entries handled, both settings files written and .gitignore changed
C17_Witness ==
  /\ pc = "summary"
  /\ "conflict" \in prompts
  /\ Len(installed) + Len(skipped) = MaxFiles
  /\ results.project.status = "updated"
  /\ results.user.status = "updated"
  /\ results.gitignore.status \in {"updated", "created"}

\* the text old is a prefix of the text new
IsPrefixText(old, new) ==
  /\ Len(old.lines) <= Len(new.lines)
  /\ SubSeq(new.lines, 1, Len(old.lines)) = old.lines
  /\ (old.nl \/ Len(new.lines) > Len(old.lines) \/ ~new.nl)

\* some line of the text is exactly /plans
HasPlansLine(text) ==
  /\ text.k = "text"
  /\ \E i \in 1..Len(text.lines) : text.lines[i] = "/plans"

\* the gitignore step of this run has returned and --dry-run is not set
GitignoreDone == ~opts.dryRun /\ results.gitignore.status # "none"

\* C18: the gitignore step without --dry-run.  If the target has a .git
\* entry, afterwards .gitignore has a line exactly equal to /plans, what it
\* held before is a prefix of what it holds, and the line was appended only
\* when no line was exactly /plans, so that a second run reports
\* already-present and leaves the file as it is; if the target has no .git
\* entry, .gitignore is neither made nor changed and the step reports
\* skipped.
C18_GitignoreLineEnsured ==
  GitignoreDone =>
    IF fs0.git THEN
      /\ HasPlansLine(fs.gitignore)
      /\ fs0.gitignore # Absent => IsPrefixText(fs0.gitignore, fs.gitignore)
      /\ IF HasPlansLine(fs0.gitignore)
         THEN fs.gitignore = fs0.gitignore /\ results.gitignore.status = "already-present"
         ELSE /\ fs.gitignore # fs0.gitignore
              /\ results.gitignore.status =
                   IF fs0.gitignore = Absent THEN "created" ELSE "updated"
              /\ Len(SelectSeq(fs.gitignore.lines, LAMBDA l : l = "/plans")) = 1
      /\ \A out \in {"written", "nothing", "partial"} :
           LET again == updateGitignore(fs, FALSE, out)
           IN /\ again.result.status = "already-present"
              /\ again.fs = fs
              /\ ~again.throws
    ELSE
      /\ fs.gitignore = fs0.gitignore
      /\ results.gitignore.status = "skipped"

\* /plans was appended to a .gitignore that had a line /plans/ and none
\* that was exactly /plans
C18_Witness ==
  /\ GitignoreDone
  /\ fs0.git
  /\ fs0.gitignore = Text(<<"/plans/">>, TRUE)
  /\ fs.gitignore = Text(<<"/plans/", "/plans">>, TRUE)
  /\ results.gitignore.status = "updated"

\* C19: in any run, whatever the target directory and the home directory
\* (the same directory included), no file path is written by more than one
\* of the steps file installation, project-settings reconciliation,
\* user-settings reconciliation and gitignore update
\* (temporary files, which are gone when a step ends, are left aside)
C19_OneWriterPerPath ==
  \A w1, w2 \in writes :
    (w1[2] = w2[2] /\ w1[2][2] # ".settings.json.tmp") => w1[1] = w2[1]

\* the files of a file system: skill files, settings files and .gitignore
FilesOf(f) == <<f.skills, f.settings, f.gitignore>>

\* the step being taken writes what the user has just confirmed: an
\* overwrite answer for a skill file, or a yes to the question about a
\* settings file
ConfirmedWrite ==
  \/ pc = "switchConflict" /\ answer \in {"o", "overwrite"}
  \/ Writing /\ pending.label \in prompts

C22_MalformedSourceAborts ==
  [][\A label \in Labels :
       tmpl'[label] = Malformed =>
         /\ fs' = fs
         /\ pc' = "exited"
         /\ exitCode' = "1"
         /\ results'[label].status = "none"
         /\ results'.gitignore.status = "none"
         /\ label = "project" => (results'.user.status = "none" /\ tmpl'.user = Unread)
  ]_vars

\* the project settings were written, then user-settings.json of the stack
\* was found not to be JSON: the process has exited with code 1 and the
\* user's settings file is as it was
C22_Witness ==
  /\ tmpl.user = Malformed
  /\ results.project.status = "updated"
  /\ pc = "exited"
  /\ exitCode = "1"
  /\ fs0.settings["H/.claude/settings.json"] = Json(ExUserS)
  /\ fs.settings["H/.claude/settings.json"] = Json(ExUserS)
  /\ results.user.status = "none"

\* C24: without --dry-run, with --yes or without, an entry whose
\* destination is absent when it is examined is copied without a question:
\* unless the copy throws, the destination then exists with the content of
\* the source file, its parent directories exist, and the entry is on the
\* installed list (and not on the skipped list); it stays so to the end of
\* the run.
C24_AbsentIsCopied ==
  [][~opts.dryRun =>
       \A i \in 1..MaxFiles :
         /\ (pc = "processFile" /\ idx = i /\ fs.skills[i] = "absent") =>
              /\ exists'[i] = "no"
              /\ prompts' = prompts
              /\ pc' \in {AfterFile(i), "finally"}
              /\ pc' = "finally" <=> thrown'
              /\ ~thrown' => installed' = Append(installed, i)
         /\ (exists'[i] = "no" /\ ~thrown') =>
              /\ fs'.skills[i] = "src"
              /\ {"T/.claude", "T/.claude/skills"} \subseteq fs'.dirs
              /\ InSeq(installed', i)
              /\ ~InSeq(skipped', i)
  ]_vars

\* without --yes and without --dry-run, both entries were absent, in a
\* target that had no .claude directory: both were copied, no question was
\* asked about a file, and the run went to its end
C24_Witness ==
  /\ Interactive
  /\ Completed
  /\ fs0.skills = <<"absent", "absent">>
  /\ fs0.dirs = {}
  /\ "conflict" \notin prompts
  /\ exists = <<"no", "no">>
  /\ installed = <<1, 2>>
  /\ fs.skills = <<"src", "src">>
  /\ "T/.claude/skills" \in fs.dirs

\* ------------------------------------------------------------------------
\* Properties of resolveSource (ResolveSpec)
\* ------------------------------------------------------------------------

\* the facts in fields have not been looked at
NotProbed(e, fields) == \A f \in fields : e[f] = "unknown"

\* C23: source resolution.  A --source path is used whenever it is given:
\* the run ends with exit code 1 if it does not exist, and a --remote given
\* with it is not used (git is not run, nothing is cloned).  Otherwise the
\* script's own directory is used if it has stack directories and --remote
\* was not given.  Otherwise the remote is cloned into a fresh temporary
\* directory.  A temporary directory exists on return only in that last
\* case, and when the clone fails it is removed before the process exits.
C23_SourcePriority ==
  [][pc = "resolveSource" =>
       /\ opts.source # "null" =>
            /\ NotProbed(env', {"hasStacks", "gitFound", "cloned"})
            /\ tempDir' = "none"
            /\ IF env'.sourceExists = "yes"
               THEN sourceDir' = "source" /\ pc' = "selectStack"
               ELSE pc' = "exited" /\ exitCode' = "1"
       /\ (opts.source = "null" /\ opts.remote = "null" /\ env'.hasStacks = "yes") =>
            /\ NotProbed(env', {"gitFound", "cloned"})
            /\ sourceDir' = "bundled"
            /\ tempDir' = "none"
            /\ pc' = "selectStack"
       /\ (opts.source = "null" /\ (opts.remote # "null" \/ env'.hasStacks = "no")) =>
            IF env'.gitFound = "no" THEN
              pc' = "exited" /\ exitCode' = "1" /\ tempDir' = "none"
            ELSE IF env'.cloned = "no" THEN
              pc' = "exited" /\ exitCode' = "1" /\ tempDir' = "removed"
            ELSE
              sourceDir' = "temp" /\ tempDir' = "exists" /\ pc' = "selectStack"
       /\ tempDir' = "exists" <=> (pc' = "selectStack" /\ sourceDir' = "temp")
  ]_vars

\* --source and --remote were both given: the source path was returned and
\* neither git nor a temporary directory was used
C23_Witness ==
  /\ opts.source # "null"
  /\ opts.remote # "null"
  /\ pc = "selectStack"
  /\ sourceDir = "source"
  /\ tempDir = "none"
  /\ NotProbed(env, {"hasStacks", "gitFound", "cloned"})

\* the copy of entry idx has thrown
CopyFailed == thrown /\ idx \in 1..MaxFiles

\* C26: when the copy of a skill file fails, the error goes up through
\* installSkills and main() and ends the run: no later entry is examined,
\* no settings reconciliation and no gitignore update runs, the process
\* exits, after the finally block of main() and the rejection handler that
\* prints the cause, with code 1; the files copied before stay in place.
C26_CopyFailureAborts ==
  [][/\ (pc \in {"processFile", "switchConflict"} /\ ~thrown /\ thrown') =>
          /\ error' = "io"
          /\ pc' = "finally"
          /\ idx' = idx
          /\ installed' = installed
          /\ skipped' = skipped
          /\ \A j \in 1..MaxFiles : j # idx => fs'.skills[j] = fs.skills[j]
     /\ \A j \in 1..MaxFiles :
          \* a destination left part written, or still absent after it was
          \* examined, is one whose copy failed
          (\/ fs'.skills[j] = "partial"
           \/ (~opts.dryRun /\ exists'[j] = "no" /\ fs'.skills[j] = "absent")) =>
            (CopyFailed' /\ idx' = j)
     /\ CopyFailed' =>
          /\ pc' \in {"finally", "exited"}
          /\ pc' = "exited" => exitCode' = "1"
          /\ \A j \in 1..MaxFiles : j > idx' => exists'[j] = "unseen"
          /\ \A j \in 1..MaxFiles : InSeq(installed', j) => fs'.skills[j] = "src"
          /\ results' = NoFirst.results
          /\ fs'.settings = fs0.settings
          /\ fs'.gitignore = fs0.gitignore
     /\ CopyFailed =>
          /\ pc = "finally"
          /\ pc' = "exited"
          /\ fs' = fs
  ]_vars

\* the first entry was copied, the copy of the second one failed part way:
\* the process has exited with code 1, the first copy is in place and no
\* later step has run
C26_Witness ==
  /\ pc = "exited"
  /\ exitCode = "1"
  /\ CopyFailed
  /\ idx = 2
  /\ installed = <<1>>
  /\ fs.skills = <<"src", "partial">>
  /\ exists = <<"no", "no">>
  /\ results = NoFirst.results

\* ------------------------------------------------------------------------
\* Properties of one reconciliation (SettingsSpec)
\* ------------------------------------------------------------------------

\* the target of label was missing or white space when the run started, the
\* reconciliation of label is the one step that writes it, and the source
\* that was read is a mapping
EmptyTarget(label, t) ==
  /\ ~homeIsTarget
  /\ fs0.settings[TargetPath(label)] \in {Absent, Blank}
  /\ t[label].k = "json"
  /\ t[label].tree.t = "object"

\* C25: when the target settings file is missing or holds only white space,
\* the reconciliation takes the empty mapping as the target tree and asks
\* nothing, with --yes or without, with --dry-run or without: the merged
\* tree is the source tree; without --dry-run and with a source mapping
\* that is not empty, the tree handed to the writer is the source tree, and
\* when the reconciliation returns, its status is updated and the file
\* holds exactly the source tree.
C25_EmptyTargetTakesSource ==
  [][\A label \in Labels :
       EmptyTarget(label, tmpl') =>
         LET src == tmpl'[label].tree
         IN /\ label \notin prompts'
            /\ label \notin warned'
            /\ pc' \notin {AskOf(label), SwitchOf(label)}
            /\ MergeOf(EmptyObj, src) = src
            /\ (Writing' /\ pending'.label = label) =>
                 (~opts.dryRun /\ pending'.content = src)
            /\ results'[label].status # "none" =>
                 IF src = EmptyObj THEN
                   /\ results'[label].status = "unchanged"
                   /\ fs'.settings = fs0.settings
                 ELSE IF opts.dryRun THEN
                   /\ results'[label].status = "dry-run"
                   /\ results'[label].added = src.keys
                   /\ fs' = fs0
                 ELSE
                   /\ results'[label].status = "updated"
                   /\ results'[label].added = src.keys
                   /\ fs'.settings[TargetPath(label)] = Json(src)
  ]_vars

\* a project settings file of white space, no --yes and no --dry-run: no
\* question was asked and the file now holds the source mapping
C25_Witness ==
  /\ Interactive
  /\ fs0.settings["T/.claude/settings.json"] = Blank
  /\ tmpl.project = Json(ExEnvS)
  /\ prompts = {}
  /\ results.project.status = "updated"
  /\ fs.settings["T/.claude/settings.json"] = Json(ExEnvS)

RECURSIVE KeysKept(_, _)
\* every key of the mapping t, at every depth, is a key of m at the same
\* place
KeysKept(t, m) ==
  \A k \in KeySet(t) :
    /\ k \in KeySet(m)
    /\ Field(t, k).t = "object" =>
         (Field(m, k).t = "object" /\ KeysKept(Field(t, k), Field(m, k)))

\* the project reconciliation started from a target mapping and read a source
\* mapping
MappingsReconciled ==
  /\ fs0.settings["T/.claude/settings.json"].k = "json"
  /\ fs0.settings["T/.claude/settings.json"].tree.t = "object"
  /\ tmpl.project.k = "json"

\* C27: a reconciliation never removes a key of the target settings file.
\* For all mappings T and S, every key of T, at every depth, a key whose
\* value is null and that S does not have included, is a key of the tree
\* that is serialized to the file; and with S = {} the status is unchanged.
C27_KeysNeverRemoved ==
  MappingsReconciled =>
    LET T == fs0.settings["T/.claude/settings.json"].tree
    IN /\ (Writing /\ pending.label = "project") => KeysKept(T, pending.content)
       /\ results.project.status = "updated" =>
            KeysKept(T, fs.settings["T/.claude/settings.json"].tree)
       /\ (results.project.status # "none" /\ tmpl.project.tree = EmptyObj) =>
            results.project.status = "unchanged"

\* C28: for a target settings file that holds JSON of any type (mapping,
\* sequence, string, number, boolean or null) the reconciliation goes to its
\* end and returns skipped, unchanged, dry-run or updated: no error is
\* raised by it that aborts the run (a file operation that fails is not an
\* error of the reconciliation).
C28_ValidJsonNeverAborts ==
  (fs0.settings["T/.claude/settings.json"].k = "json" /\ tmpl.project.k = "json") =>
    /\ thrown => error = "io"
    /\ results.project.status \in {"none", "skipped", "unchanged", "dry-run", "updated"}

\* ------------------------------------------------------------------------
\* Properties of two runs in a row (RerunSpec)
\* ------------------------------------------------------------------------

\* the second run has begun, after a first run that was no dry run
SecondOfTwo == run = 2 /\ ~first.dryRun

\* C21: the installer is idempotent.  A second run with --yes, the same
\* source and the same stack, on the file system a completed first run
\* left, writes nothing: every skill file it examines is skipped, each
\* settings reconciliation that merged in the first run returns unchanged,
\* and the gitignore step, if it ran in the first run, reports
\* already-present; whatever the source settings hold, sequences of mappings
\* included.
C21_SecondRunWritesNothing ==
  SecondOfTwo =>
    /\ fs = fs0
    /\ writes = {}
    /\ installed = <<>>
    /\ \A i \in 1..MaxFiles :
         exists[i] # "unseen" => (exists[i] = "yes" /\ InSeq(skipped, i))
    /\ \A label \in Labels :
         (/\ first.results[label].status \in {"updated", "unchanged"}
          /\ results[label].status # "none") => results[label].status = "unchanged"
    /\ (/\ first.results.gitignore.status \in {"updated", "created", "already-present"}
        /\ results.gitignore.status # "none")
         => results.gitignore.status = "already-present"

\* a run without --dry-run has gone to its end after a dry run of the same
\* command on the same file system
RealAfterDry == run = 2 /\ first.dryRun /\ Completed

\* C29: a dry run predicts the run with --yes.  From the same file system,
\* the entries the dry run lists as would-copy are the entries the real run
\* installs, those it lists as would-skip are those the real run skips, a
\* reconciliation returns dry-run exactly when the real one returns
\* updated, with the same added and unchanged keys, and the gitignore step
\* reports would-append or would-create exactly when the real one appends
\* or creates.
C29_DryRunPredicts ==
  RealAfterDry =>
    /\ first.installed = installed
    /\ first.skipped = skipped
    /\ \A label \in Labels :
         /\ first.results[label].status = "dry-run" <=> results[label].status = "updated"
         /\ first.results[label].status = "dry-run" =>
              /\ first.results[label].added = results[label].added
              /\ first.results[label].unchanged = results[label].unchanged
         /\ first.results[label].status # "dry-run" => first.results[label] = results[label]
    /\ first.results.gitignore.action = "would append" <=> results.gitignore.status = "updated"
    /\ first.results.gitignore.action = "would create" <=> results.gitignore.status = "created"
    /\ first.results.gitignore.status # "dry-run" =>
         first.results.gitignore = results.gitignore

\* ------------------------------------------------------------------------
\* Properties of the run with --yes and --stack (YesSpec)
\* ------------------------------------------------------------------------

\* the run waits for a line of terminal input
WaitsForInput == pc \in {"askStack", "askConflict", "askProject", "askUser"}

\* C30: with --yes and --stack no prompt is opened in any step (stack
\* selection, file conflicts, malformed target settings) and the run never
\* waits for terminal input; once resolveSource has returned the run always
\* comes to its end.
C30_NoPromptAndTerminates ==
  /\ [](prompts = {} /\ ~WaitsForInput)
  /\ (pc = "selectStack") ~> (pc = "exited")

\* a run with --yes that met an existing file and a malformed target
\* settings file, asked nothing and went to its end
C30_Witness ==
  /\ opts.yes /\ opts.stack # "null" /\ ~opts.dryRun
  /\ Completed
  /\ skipped # <<>>
  /\ warned # {}
  /\ prompts = {}

\* ------------------------------------------------------------------------
\* Properties of reverseMerge (MergeSpec)
\* ------------------------------------------------------------------------

\* the first call has returned
Merged == phase \in {"merged", "remerged"}
BothMappings == tIn.t = "object" /\ sIn.t = "object"
MergedView == View(heap, merged)

SameKind(x, y, kind) == x.t = kind /\ y.t = kind

RECURSIVE TargetWins(_, _, _)
\* at every key of t, and below it, a defined non-null value of t that does
\* not meet a value of the same composite kind in s is the value in m
TargetWins(t, s, m) ==
  \A k \in KeySet(t) :
    LET tv == Field(t, k)
        sv == Field(s, k)
        mv == Field(m, k)
    IN /\ (/\ ~IsNullish(tv)
           /\ ~SameKind(tv, sv, "array")
           /\ ~SameKind(tv, sv, "object")) => DeepEqual(mv, tv)
       /\ tv.t = "object" => TargetWins(tv, sv, mv)

\* C4: target priority.  For mappings T and S and every key k, at every
\* depth, where T[k] is defined and non-null and T[k], S[k] are not both
\* sequences and not both mappings, merge(T,S)[k] equals T[k]; falsy target
\* scalars and type mismatches included.
C4_TargetPriority == (Merged /\ BothMappings) => TargetWins(tIn, sIn, mIn)

\* a falsy target scalar that met a source mapping, and a nested falsy
\* target scalar that met a truthy source scalar, were both kept
C4_Witness ==
  /\ phase = "merged"
  /\ \/ /\ Field(tIn, "a") = Bool(FALSE)
        /\ Field(sIn, "a").t = "object"
        /\ Field(mIn, "a") = Bool(FALSE)
     \/ /\ Field(Field(tIn, "a"), "a") = Num(0)
        /\ Field(Field(sIn, "a"), "a") = Num(1)
        /\ Field(Field(mIn, "a"), "a") = Num(0)

\* C5: merge(T,S) leaves both arguments unmodified: after the call T and S
\* are structurally equal to their pre-call snapshots at every depth (for
\* the second call the arguments are the first result and S).
C5_InputsUnmodified ==
  /\ Merged => (View(heap, target) = tIn /\ View(heap, source) = sIn)
  /\ phase = "remerged" => View(heap, merged) = mIn

\* two nested mappings were merged into something that is neither input
C5_Witness ==
  /\ phase = "remerged"
  /\ SameKind(Field(tIn, "a"), Field(sIn, "a"), "object")
  /\ ~DeepEqual(mIn, tIn)
  /\ ~DeepEqual(mIn, sIn)

\* C6: idempotence in the source: merge(merge(T,S), S) equals merge(T,S)
\* for any trees T and S.
C6_Idempotent == phase = "remerged" => DeepEqual(View(heap, merged2), mIn)

\* the elements of the sequence of trees ss that are structurally equal to
\* no element of ts, in the order of ss
NotAmong(ts, ss) ==
  SelectSeq(ss, LAMBDA v : \A i \in 1..Len(ts) : ~DeepEqual(ts[i], v))

EqualSeqs(xs, ys) == DeepEqual(Arr(xs), Arr(ys))

\* C7: when the values at a key are sequences in both T and S, the merged
\* value is T's sequence followed by exactly those elements of S's sequence
\* that are not equal to any element of T's sequence, in S's order.
C7_ArrayUnion ==
  (Merged /\ BothMappings) =>
    \A k \in KeySet(tIn) :
      SameKind(Field(tIn, k), Field(sIn, k), "array") =>
        /\ Field(mIn, k).t = "array"
        /\ EqualSeqs(Field(mIn, k).elems,
                     Field(tIn, k).elems \o NotAmong(Field(tIn, k).elems, Field(sIn, k).elems))

\* no two elements of the sequence of trees xs are structurally equal
NoRepeat(xs) == \A i, j \in 1..Len(xs) : DeepEqual(xs[i], xs[j]) => i = j

\* C8: the sequence rule is a set union: whenever T's sequence at a key has
\* no repeated element, the merged sequence at that key has none, for every
\* source sequence.
C8_NoRepeats ==
  (Merged /\ BothMappings) =>
    \A k \in KeySet(tIn) :
      (SameKind(Field(tIn, k), Field(sIn, k), "array") /\ NoRepeat(Field(tIn, k).elems))
        => (Field(mIn, k).t = "array" /\ NoRepeat(Field(mIn, k).elems))

RECURSIVE MergedBelow(_, _, _)
\* at every key where t and s both hold a mapping, and below it, m holds
\* the merge of the two mappings
MergedBelow(t, s, m) ==
  \A k \in KeySet(t) :
    SameKind(Field(t, k), Field(s, k), "object") =>
      /\ DeepEqual(Field(m, k), MergeOf(Field(t, k), Field(s, k)))
      /\ MergedBelow(Field(t, k), Field(s, k), Field(m, k))

\* C9: when the values at a key are mappings in both T and S, the merged
\* value at that key is merge applied recursively, at every depth; the
\* target {"env":{"X":"user"},"extra":true} and the source
\* {"env":{"X":"template","Y":"2"}} give {"env":{"X":"user","Y":"2"},"extra":true}.
C9_RecursiveMerge ==
  (Merged /\ BothMappings) =>
    /\ MergedBelow(tIn, sIn, mIn)
    /\ (tIn = ExEnvT /\ sIn = ExEnvS) => mIn = ExEnvM

\* the worked example was merged
C9_Witness == phase = "merged" /\ tIn = ExEnvT /\ sIn = ExEnvS /\ mIn = ExEnvM

RECURSIVE GapsFilled(_, _, _)
\* at every key of s that t lacks or holds null at, m holds s's value; the
\* same below every key where both hold a mapping
GapsFilled(t, s, m) ==
  \A k \in KeySet(s) :
    /\ IsNullish(Field(t, k)) => DeepEqual(Field(m, k), Field(s, k))
    /\ SameKind(Field(t, k), Field(s, k), "object")
         => GapsFilled(Field(t, k), Field(s, k), Field(m, k))

\* C10: gap filling.  For every key k absent or null in T and present in S,
\* merge(T,S)[k] equals S[k] whatever its type; merge({}, S) = S;
\* merge(null, S) = S; merge(T, null) = T; merge(null, null) = {}.
C10_GapFilling ==
  Merged =>
    /\ BothMappings => GapsFilled(tIn, sIn, mIn)
    /\ (tIn = EmptyObj /\ sIn.t = "object") => mIn = sIn
    /\ (tIn = Null /\ sIn # Null) => mIn = sIn
    /\ (sIn = Null /\ tIn # Null) => mIn = tIn
    /\ (tIn = Null /\ sIn = Null) => mIn = EmptyObj

\* a null in T was replaced by a sequence of S, and a whole null target by
\* the source
C10_Witness ==
  /\ phase = "merged"
  /\ \/ /\ Field(tIn, "a") = Null
        /\ Field(sIn, "a").t = "array"
        /\ Len(Field(sIn, "a").elems) > 0
        /\ Field(mIn, "a") = Field(sIn, "a")
     \/ tIn = Null /\ sIn = ExGapS /\ mIn = ExGapS

=============================================================================
